---- MODULE Spec2Model ----
(***************************************************************************)
(* Model of python-scoutlight: the hierarchical Key, the Registry contract *)
(* layer, the in-memory backend and the etcd3 (lease-backed) backend.      *)
(*                                                                         *)
(* Python strings are modelled as sequences of one-character strings, so   *)
(* that normalize_key, split and join are computed character by character. *)
(* The code base is Python 2 (basestring, sys.maxint, __metaclass__).      *)
(*                                                                         *)
(* Spec drives the two registries call by call.  LifeSpec is one           *)
(* Etcd3Registry under setup(), destroy() and its public operations, with  *)
(* the threads of its refresh timers.  TimerSpec is one PeriodicTimer.     *)
(***************************************************************************)
EXTENDS Integers, Sequences, FiniteSets, TLC

VARIABLES
    model,      \* InMemoryRegistry._model : OrderedDict, as a sequence of [k: Key object, v: value]
    etcd,       \* content of the coordination store: set of [key, value, create_revision, lease]
    revision,   \* the store's revision counter
    lease,      \* Etcd3Registry._lease (NoLease models None)
    hist,       \* the (canonical key, value) pairs of the put calls that returned, oldest first
    last,       \* the most recent call on the registries and what it returned or raised
    prev,       \* the call before `last`, kept when both are put_if_not_exist calls
    calls,      \* the number of calls made on the registries
    reg,        \* the fields of one Etcd3Registry whose setup() and destroy() are called
    leases,     \* the leases the coordination store granted, by lease id
    timers,     \* the PeriodicTimer objects created so far, each with its thread
    fg,         \* the foreground thread: where it is in a blocking call, and its latest call
    fgCalls,    \* the number of foreground calls on the registry under setup/destroy or on the timer
    loc,        \* a RoundRobingServiceLocator, its callers and the calls made on it
    kt          \* the key function under application, its arguments and its result

\* the state of the registries driven call by call
callVars == <<model, hist, last, prev, calls>>

\* the state of the lifecycle of an Etcd3Registry and of the PeriodicTimer threads
lifeVars == <<reg, leases, timers, fg, fgCalls>>

vars == <<model, etcd, revision, lease, hist, last, prev, calls, reg, leases, timers, fg, fgCalls, loc, kt>>

----------------------------------------------------------------------------
(* Bounds *)

\* number of calls on the registries in one behaviour
MaxCalls == 4

----------------------------------------------------------------------------
(* Python str helpers *)

Whitespace == {" "}

StartsWith(s, pre) == Len(s) >= Len(pre) /\ SubSeq(s, 1, Len(pre)) = pre

EndsWith(s, suf) == Len(s) >= Len(suf) /\ SubSeq(s, Len(s) - Len(suf) + 1, Len(s)) = suf

RECURSIVE lstrip(_)
lstrip(s) == IF s # <<>> /\ Head(s) \in Whitespace THEN lstrip(Tail(s)) ELSE s

RECURSIVE rstrip(_)
rstrip(s) == IF s # <<>> /\ s[Len(s)] \in Whitespace THEN rstrip(SubSeq(s, 1, Len(s) - 1)) ELSE s

\* str.strip()
strip(s) == rstrip(lstrip(s))

\* '//' in key
HasDoubleSlash(s) == \E i \in 1..(Len(s) - 1) : s[i] = "/" /\ s[i + 1] = "/"

\* key.replace('//', '/'): one left-to-right pass over non-overlapping occurrences
RECURSIVE replace(_)
replace(s) ==
    IF Len(s) < 2 THEN s
    ELSE IF s[1] = "/" /\ s[2] = "/" THEN <<"/">> \o replace(SubSeq(s, 3, Len(s)))
    ELSE <<s[1]>> \o replace(Tail(s))

\* key.split('/')
RECURSIVE split(_)
split(s) ==
    IF \A i \in 1..Len(s) : s[i] # "/" THEN <<s>>
    ELSE LET i == CHOOSE j \in 1..Len(s) : s[j] = "/" /\ \A h \in 1..(j - 1) : s[h] # "/"
         IN  <<SubSeq(s, 1, i - 1)>> \o split(SubSeq(s, i + 1, Len(s)))

\* "/".join(args)
RECURSIVE join(_)
join(args) ==
    IF args = <<>> THEN <<>>
    ELSE IF Len(args) = 1 THEN args[1]
    ELSE args[1] \o <<"/">> \o join(Tail(args))

----------------------------------------------------------------------------
(* tools/key_tools.py *)

RECURSIVE StripTrailingSlashes(_)
StripTrailingSlashes(key) ==
    IF EndsWith(key, <<"/">>) THEN StripTrailingSlashes(SubSeq(key, 1, Len(key) - 1)) ELSE key

RECURSIVE RemoveDuplicateSlashes(_)
RemoveDuplicateSlashes(key) ==
    IF HasDoubleSlash(key) THEN RemoveDuplicateSlashes(replace(key)) ELSE key

normalize_key(key) ==
    LET k1 == strip(key)
        k2 == IF StartsWith(k1, <<"/">>) THEN k1 ELSE <<"/">> \o k1
        k3 == StripTrailingSlashes(k2)
    IN  RemoveDuplicateSlashes(k3)

construct_key(args) == normalize_key(join(args))

----------------------------------------------------------------------------
(* registry/key.py.  A Key object is [id, key, key_parts]; id is the       *)
(* identity of the Python object.                                          *)

Key(id, key, key_parts) == [id |-> id, key |-> key, key_parts |-> key_parts]

Key_create(id, key) ==
    LET k == normalize_key(key) IN Key(id, k, Tail(split(k)))

key_length(k) == Len(k.key_parts)

Key_starts_with(self, sub_key_parts) ==
    IF Len(sub_key_parts) > Len(self.key_parts) THEN FALSE
    ELSE \A index \in 1..Len(sub_key_parts) : sub_key_parts[index] = self.key_parts[index]

\* a parent test on the key strings in place of the key parts
Key_is_a_parent_by_string_prefix(self, parent) ==
    self.key # parent.key /\ StartsWith(self.key, parent.key)

\* a parent test that also accepts a key of the same length
Key_is_a_parent_or_equal(self, parent) ==
    key_length(parent) <= key_length(self) /\ Key_starts_with(self, parent.key_parts)

Key_is_a_parent(self, parent) ==
    key_length(parent) < key_length(self) /\ Key_starts_with(self, parent.key_parts)

Key_is_immediate_parent(self, parent) ==
    Key_is_a_parent(self, parent) /\ (key_length(self) - 1) = key_length(parent)

\* relative_path is a string (one more part) or a Key (its parts)
Key_relative(id, self, relative_path, is_key) ==
    LET all_parts == IF is_key THEN self.key_parts \o relative_path.key_parts
                     ELSE Append(self.key_parts, relative_path)
    IN  Key_create(id, construct_key(all_parts))

\* defined where Key_is_a_parent(self, parent_key); the code raises KeyException otherwise
Key_remove_parent(id, self, parent_key) ==
    Key_create(id, construct_key(SubSeq(self.key_parts, key_length(parent_key) + 1, key_length(self))))

Key_eq(self, other) == other.key = self.key

\* Key defines __eq__ and no __hash__: in Python 2 the class keeps object.__hash__,
\* which is derived from the identity of the object.
Key_hash(self) == self.id

----------------------------------------------------------------------------
(* Results of calls: what a call raised (exc, "" when it returned), the    *)
(* value it returned (ret) and, for list_keys and fetch, the returned      *)
(* dictionary in iteration order (items, a sequence of [k, v]).            *)

Returned(ret) == [exc |-> "", ret |-> ret, items |-> <<>>]

ReturnedDict(items) == [exc |-> "", ret |-> "", items |-> items]

Raised(exc) == [exc |-> exc, ret |-> "", items |-> <<>>]

NotCalled == [exc |-> "", ret |-> "", items |-> <<>>]

\* the keys of a dictionary, as a sequence and as a set
Keys(items) == [i \in DOMAIN items |-> items[i].k]

KeySet(items) == {items[i].k : i \in DOMAIN items}

\* the value items maps key k to (k is one of its keys)
ValueOf(items, k) == items[CHOOSE i \in DOMAIN items : items[i].k = k].v

\* s without its i-th element
Without(s, i) == SubSeq(s, 1, i - 1) \o SubSeq(s, i + 1, Len(s))

\* the orderings of a sequence: what iterating a plain dict() of its entries may yield
RECURSIVE Orderings(_)
Orderings(s) ==
    IF s = <<>> THEN {<<>>}
    ELSE UNION {{<<s[i]>> \o rest : rest \in Orderings(Without(s, i))} : i \in DOMAIN s}

----------------------------------------------------------------------------
(* Python dictionaries *)

\* The slots of an OrderedDict keyed by Key objects that a lookup of `key` finds: the
\* stored key must have the same hash, and be the same object or compare equal.
DictFind(d, key) ==
    {i \in DOMAIN d : Key_hash(d[i].k) = Key_hash(key) /\ (d[i].k.id = key.id \/ Key_eq(d[i].k, key))}

\* key in d
DictContains(d, key) == DictFind(d, key) # {}

\* d[key]
DictGet(d, key) == d[CHOOSE i \in DictFind(d, key) : TRUE].v

\* d[key] = value : a new key goes last, an existing key keeps its place
DictSet(d, key, value) ==
    IF DictContains(d, key)
    THEN [d EXCEPT ![CHOOSE i \in DictFind(d, key) : TRUE].v = value]
    ELSE Append(d, [k |-> key, v |-> value])

\* result.pop(k, None)
RECURSIVE StrDictPop(_, _)
StrDictPop(d, k) ==
    IF d = <<>> THEN <<>>
    ELSE IF Head(d).k = k THEN Tail(d)
    ELSE <<Head(d)>> \o StrDictPop(Tail(d), k)

\* result[k] = value, where an existing key is moved to the end
StrDictSet_move_to_end(d, k, value) == Append(StrDictPop(d, k), [k |-> k, v |-> value])

\* result[k] = value on a dictionary keyed by strings
StrDictSet(d, k, value) ==
    IF \E i \in DOMAIN d : d[i].k = k
    THEN [d EXCEPT ![CHOOSE i \in DOMAIN d : d[i].k = k].v = value]
    ELSE Append(d, [k |-> k, v |-> value])


----------------------------------------------------------------------------
(* registry/in_memory_registry.py *)

\* for key, value in kv_list: self._model[key] = value
RECURSIVE InMemory_put_loop(_, _)
InMemory_put_loop(m, kv_list) ==
    IF kv_list = <<>> THEN m
    ELSE InMemory_put_loop(DictSet(m, kv_list[1][1], kv_list[1][2]), Tail(kv_list))

\* conditional_key_exist is <<>> (None) or <<key>>
InMemoryRegistry_put(m, kv_list, conditional_key_exist) ==
    IF conditional_key_exist # <<>> /\ DictContains(m, conditional_key_exist[1])
    THEN [model |-> m, res |-> Returned("False")]
    ELSE [model |-> InMemory_put_loop(m, kv_list), res |-> Returned("True")]

\* a lookup that returns a default for a missing key, as self._model.get(get_key) would
InMemoryRegistry_get_one_or_default(m, get_key) ==
    IF ~DictContains(m, get_key) THEN Returned("") ELSE Returned(DictGet(m, get_key))

InMemoryRegistry_get_one(m, get_key) ==
    IF ~DictContains(m, get_key) THEN Raised("KeyDoesNotExist")
    ELSE Returned(DictGet(m, get_key))

RECURSIVE InMemory_get_loop(_, _, _, _, _)
InMemory_get_loop(m, get_key, recursive, keys_only, result) ==
    IF m = <<>> THEN result
    ELSE LET key   == Head(m).k
             value == IF keys_only THEN "" ELSE Head(m).v
             next  == IF ~recursive /\ Key_is_immediate_parent(key, get_key)
                          THEN StrDictSet(result, key.key, value)
                      ELSE IF recursive /\ Key_is_a_parent(key, get_key)
                          THEN StrDictSet(result, key.key, value)
                      ELSE result
         IN  InMemory_get_loop(Tail(m), get_key, recursive, keys_only, next)

InMemoryRegistry_get(m, get_key, recursive, keep_order, keys_only, exclude_parent_keys) ==
    LET result == InMemory_get_loop(m, get_key, recursive, keys_only, <<>>)
    IN  IF exclude_parent_keys THEN StrDictPop(result, get_key.key) ELSE result

----------------------------------------------------------------------------
(* The etcd3 client, as registry/etcd3_registry.py uses it.  An entry of   *)
(* the store is [key, value, create_revision, version, lease].             *)

\* None, for Etcd3Registry._lease
NoLease == 0

RECURSIVE SetToSeq(_)
SetToSeq(S) ==
    IF S = {} THEN <<>>
    ELSE LET x == CHOOSE y \in S : TRUE IN <<x>> \o SetToSeq(S \ {x})

\* Version(key): the number of writes of key since its creation, 0 when key is absent
Version(store, key) ==
    IF \E e \in store : e.key = key THEN (CHOOSE e \in store : e.key = key).version ELSE 0

\* one Put(key, value, lease) applied at revision rev
StorePut(store, rev, key, value, l) ==
    IF \E e \in store : e.key = key
    THEN {IF e.key = key THEN [e EXCEPT !.value = value, !.version = e.version + 1, !.lease = l] ELSE e
            : e \in store}
    ELSE store \cup {[key |-> key, value |-> value, create_revision |-> rev, version |-> 1, lease |-> l]}

\* client.get(key) -> (value, metadata); metadata is None when the key is absent
client_get(store, key) ==
    IF \E e \in store : e.key = key
    THEN [value |-> (CHOOSE e \in store : e.key = key).value, metadata |-> TRUE]
    ELSE [value |-> "", metadata |-> FALSE]

\* client.put(key, value, lease)
client_put(store, rev, key, value, l) ==
    [store |-> StorePut(store, rev + 1, key, value, l), revision |-> rev + 1]

RECURSIVE StorePutAll(_, _, _)
StorePutAll(store, rev, ops) ==
    IF ops = <<>> THEN store
    ELSE StorePutAll(StorePut(store, rev, ops[1].key, ops[1].value, ops[1].lease), rev, Tail(ops))

\* client.transaction(compare, success, failure): compare is a sequence of keys k standing for
\* Version(k) > 0; the success operations run when every comparison holds (an empty compare
\* holds), the failure operations otherwise; all of them at one revision, one response each.
client_transaction(store, rev, compare, success, failure) ==
    LET status == \A i \in DOMAIN compare : Version(store, compare[i]) > 0
        ops    == IF status THEN success ELSE failure
    IN  [store     |-> StorePutAll(store, rev + 1, ops),
         revision  |-> IF ops = <<>> THEN rev ELSE rev + 1,
         status    |-> status,
         responses |-> Len(ops)]

\* the entries of a set by ascending create_revision; entries created by one transaction
\* share their revision and come in the order the store chooses
RECURSIVE ByCreation(_)
ByCreation(S) ==
    IF S = {} THEN <<>>
    ELSE LET x == CHOOSE y \in S : \A z \in S : y.create_revision <= z.create_revision
         IN  <<x>> \o ByCreation(S \ {x})

\* client.get_prefix(prefix, keys_only, sort_order='ascend', sort_target='create') when
\* sort_create, client.get_prefix(prefix, keys_only) otherwise: the (value, metadata) items.
\* Without a sort target the order is the store's; the registry then puts the items in a
\* plain dict(), which keeps no order.
client_get_prefix(store, prefix, keys_only, sort_create) ==
    LET items == {[key |-> e.key, value |-> IF keys_only THEN "" ELSE e.value,
                   create_revision |-> e.create_revision] : e \in {d \in store : StartsWith(d.key, prefix)}}
    IN  IF sort_create THEN ByCreation(items) ELSE SetToSeq(items)

----------------------------------------------------------------------------
(* registry/etcd3_registry.py *)

\* identity of a Key object that a call creates and drops before it returns
Temp == 0

ROOT_KEY == Key_create(Temp, <<"/", "r", "e", "g", "i", "s", "t", "r", "y">>)

\* key is a Key (is_key) or a string
Etcd3Registry_to_ectd_key(key, is_key) == Key_relative(Temp, ROOT_KEY, key, is_key).key

\* the code raises KeyError when the root key is no parent of key
Etcd3Registry_to_local_key(key) == Key_remove_parent(Temp, Key_create(Temp, key), ROOT_KEY)

Etcd3Registry_get_one(store, get_key) ==
    LET etcd3_key == Etcd3Registry_to_ectd_key(get_key, TRUE)
        got       == client_get(store, etcd3_key)
    IN  IF ~got.metadata THEN Raised("KeyDoesNotExist") ELSE Returned(got.value)

RECURSIVE Etcd3_get_loop(_, _, _, _)
Etcd3_get_loop(metadata_list, get_key, recursive, results) ==
    IF metadata_list = <<>> THEN results
    ELSE LET item == Head(metadata_list)
             key  == Etcd3Registry_to_local_key(item.key)
             next == IF recursive \/ (~recursive /\ Key_is_immediate_parent(key, get_key))
                     THEN StrDictSet(results, key.key, item.value)
                     ELSE results
         IN  Etcd3_get_loop(Tail(metadata_list), get_key, recursive, next)

\* the dictionaries the call may return: an OrderedDict when keep_order, else a dict()
Etcd3Registry_get(store, get_key, recursive, keep_order, keys_only, exclude_parent_keys) ==
    LET etcd3_base_key == Etcd3Registry_to_ectd_key(get_key, TRUE) \o <<"/">>
        metadata_list  == client_get_prefix(store, etcd3_base_key, keys_only, keep_order)
        results        == Etcd3_get_loop(metadata_list, get_key, recursive, <<>>)
    IN  IF keep_order THEN {results} ELSE Orderings(results)

\* kv_list is a sequence of <<Key, value>>; conditional_key_exist is <<>> (None) or <<Key>>
Etcd3Registry_put(store, rev, l, kv_list, conditional_key_exist) ==
    IF Len(kv_list) > 1 \/ conditional_key_exist # <<>>
    THEN LET conditional_key ==
                 IF conditional_key_exist # <<>>
                 THEN <<Etcd3Registry_to_ectd_key(conditional_key_exist[1].key, FALSE)>>
                 ELSE <<>>
             put_commands ==
                 [i \in DOMAIN kv_list |->
                    [key |-> Etcd3Registry_to_ectd_key(kv_list[i][1].key, FALSE),
                     value |-> kv_list[i][2], lease |-> l]]
             txn == client_transaction(store, rev, conditional_key, <<>>, put_commands)
         IN  [store |-> txn.store, revision |-> txn.revision,
              res |-> Returned(IF txn.responses > 0 THEN "True" ELSE "False")]
    ELSE LET done == client_put(store, rev, Etcd3Registry_to_ectd_key(kv_list[1][1], TRUE),
                                kv_list[1][2], l)
         IN  [store |-> done.store, revision |-> done.revision, res |-> Returned("True")]

----------------------------------------------------------------------------
(* Arguments of the calls.  A key argument is a string or a Key object the *)
(* caller built with Key.create(raw) and holds on to.                      *)

Str(raw) == [type |-> "str", id |-> Temp, raw |-> raw]

KeyObject(id, raw) == [type |-> "Key", id |-> id, raw |-> raw]

NoArg == Str(<<>>)

s_p   == <<"/", "p">>
s_pa  == <<"/", "p", "/", "a">>
s_pa2 == <<"p", "/", "/", "a", "/">>
s_pb  == <<"/", "p", "/", "b">>
s_pax == <<"/", "p", "/", "a", "/", "x">>
s_pA  == <<"/", "p", "A">>

\* two Key objects of the caller with the same canonical string /p/a
CallerKeys == {KeyObject(1, s_pa), KeyObject(2, s_pa2)}

KeyArgs == {Str(s_p), Str(s_pa), Str(s_pb), Str(s_pax)} \cup CallerKeys

PutInputs ==
    {<<Str(s_pa), "1">>, <<Str(s_pa2), "2">>, <<Str(s_pb), "1">>, <<Str(s_pax), "1">>,
     <<Str(s_pA), "1">>, <<KeyObject(1, s_pa), "1">>}

ParentArgs == {Str(s_p), Str(s_pa)}

\* put_if_not_exist calls
ConditionalInputs == {<<Str(s_pa), "1">>, <<Str(s_pa2), "2">>}

\* put_all calls: the shape of the argument and its pairs
PutAllInputs ==
    {[shape |-> "list",  values |-> <<<<Str(s_pa), "1">>, <<Str(s_pb), "2">>>>],
     [shape |-> "dict",  values |-> <<<<Str(s_pa), "2">>, <<Str(s_pax), "1">>>>],
     [shape |-> "tuple", values |-> <<<<Str(s_pb), "1">>>>]}

Callers == {1, 2}

\* the identity of the next Key object that is created and kept
NewId(m) == Cardinality(CallerKeys) + Len(m) + 1

\* the canonical key string of an argument
Canonical(arg) == normalize_key(arg.raw)

----------------------------------------------------------------------------
(* registry/__init__.py : the contract layer *)

\* the attributes a Registry instance has: those of Lifecycle, Registry and the backends
Registry_attributes ==
    {"setup", "destroy", "lifecycle_state", "_assert_state",
     "put_if_not_exist", "put", "put_all", "get", "list_keys", "fetch",
     "_put", "_get_one", "_get", "_as_key", "_assert_value", "_to_tuple_list",
     "_to_local_key", "_to_ectd_key"}

\* self.<name> raises AttributeError unless the instance has the attribute
HasAttr(name) == name \in Registry_attributes

\* a string becomes a new Key object, a Key object is returned as it is
Registry_as_key(key_or_string, fresh) ==
    IF key_or_string.type = "Key" THEN Key_create(key_or_string.id, key_or_string.raw)
    ELSE Key_create(fresh, key_or_string.raw)

\* values is a sequence of <<key argument, value>> pairs, given as a dict, one tuple or a
\* list of tuples.  append_pair calls self._to_key on what it is given; for a list it is
\* given values[0] and values[1], the first two tuples, in place of the pair.
Registry_to_tuple_list(shape, values) ==
    IF values = <<>> THEN [exc |-> "", pair_list |-> <<>>]
    ELSE IF shape = "list" /\ Len(values) < 2 THEN [exc |-> "IndexError", pair_list |-> <<>>]
    ELSE IF ~HasAttr("_to_key") THEN [exc |-> "AttributeError", pair_list |-> <<>>]
    ELSE IF shape = "list" THEN [exc |-> "AssertionError", pair_list |-> <<>>]
    ELSE [exc |-> "",
          pair_list |-> [i \in DOMAIN values |-> <<Registry_as_key(values[i][1], Temp), values[i][2]>>]]

\* list(d.keys())
Registry_list(d) == [i \in DOMAIN d |-> [k |-> d[i].k, v |-> ""]]

----------------------------------------------------------------------------
(* tools/periodic_timer.py *)

DEFAULT_MAX_FAILURE_COUNT == 10

\* self.callback of a timer made by a test: a callable that returns or raises
TestCallback == "callback"

\* self.callback of the timer made by Etcd3Registry.setup
LeaseRefreshHandler == "__periodic_lease_refresh_handler"

\* PeriodicTimer(interval, callback).  pc is the position of self._thread: "initial" before
\* Thread.start(), then inside _run ("run", "wait", "callback", and inside the lease-refresh
\* handler "h_load", "h_call", "h_log", then "exit"), "gone" when _run has returned.
\* lease_ref is the handler's reference to the lease it is about to refresh.
\* The fields from loops on record what happened: the entries into _run, the callback
\* invocations, those that raised, the invocations that raised in a row, the refresh calls
\* that failed in a row, whether _run set the stop event itself, and which calls returned.
PeriodicTimer(interval, callback) ==
    [interval |-> interval, callback |-> callback,
     pc |-> "initial", stop_event |-> FALSE,
     failure_count |-> 0, max_failure_count |-> DEFAULT_MAX_FAILURE_COUNT,
     running |-> FALSE, lease_ref |-> 0,
     loops |-> 0, invocations |-> 0, failures |-> 0, streak |-> 0, refresh_failures |-> 0,
     self_stopped |-> FALSE,
     start_returned |-> FALSE, stop_returned |-> FALSE, stopped_after_start |-> FALSE]

\* Thread.is_alive(): true from the return of Thread.start() to the return of _run
Thread_is_alive(t) == t.pc \notin {"initial", "gone"}

\* Thread.join() returns once the thread is not alive
Thread_join_returns_at_once(t) == TRUE

Thread_join(t) == ~Thread_is_alive(t)

\* PeriodicTimer.start(): two assertions, then Thread.start(), which raises RuntimeError
\* for a thread that was started before
PeriodicTimer_start(t) ==
    IF t.running \/ t.stop_event THEN [timer |-> t, exc |-> "AssertionError"]
    ELSE IF t.pc # "initial" THEN [timer |-> t, exc |-> "RuntimeError"]
    ELSE [timer |-> [t EXCEPT !.pc = "run", !.start_returned = TRUE], exc |-> ""]

\* PeriodicTimer.stop(), up to the join: the stop event is set when the thread is alive
PeriodicTimer_stop(t) ==
    IF Thread_is_alive(t) THEN [t EXCEPT !.stop_event = TRUE] ELSE t

\* what stop() leaves behind when it returns
PeriodicTimer_stop_returned(t, was_started) ==
    [t EXCEPT !.stop_returned = TRUE, !.stopped_after_start = @ \/ was_started]

PeriodicTimer_is_running(t) == t.running

PeriodicTimer_set_max_failure_count(t, max_failure_count) ==
    [t EXCEPT !.max_failure_count = max_failure_count]

PeriodicTimer_failure_count(t) == t.failure_count

\* _run, first statement: self._running = True
PeriodicTimer_run_enter(t) ==
    [t EXCEPT !.running = TRUE, !.pc = "wait", !.loops = @ + 1]

\* _run, loop condition: self._stop_event.wait(self._interval) returns True when the event
\* is set, and False when the interval has passed: the callback is invoked
PeriodicTimer_run_wait(t) ==
    IF t.stop_event THEN [t EXCEPT !.pc = "exit"]
    ELSE [t EXCEPT !.pc = "callback", !.invocations = @ + 1]

\* a loop that keeps the failure count when the callback returns
PeriodicTimer_run_callback_returned_keeping_count(t) ==
    [t EXCEPT !.pc = "wait", !.streak = 0, !.lease_ref = 0]

\* _run, the callback returned
PeriodicTimer_run_callback_returned(t) ==
    [t EXCEPT !.pc = "wait", !.failure_count = 0, !.streak = 0, !.lease_ref = 0]

\* a failure threshold that is reached one failure late
PeriodicTimer_threshold_exceeded(t, count) ==
    0 < t.max_failure_count /\ t.max_failure_count < count

\* the failure threshold of _run: 0 < self._max_failure_count <= self._failure_count
PeriodicTimer_threshold(t, count) ==
    0 < t.max_failure_count /\ t.max_failure_count <= count

\* _run, the callback raised
PeriodicTimer_run_callback_raised(t) ==
    LET reached == PeriodicTimer_threshold(t, t.failure_count + 1)
    IN  [t EXCEPT !.pc = "wait", !.failure_count = @ + 1, !.failures = @ + 1, !.streak = @ + 1,
                  !.lease_ref = 0,
                  !.stop_event = @ \/ reached, !.self_stopped = @ \/ reached]

\* _run, last statement: self._running = False
PeriodicTimer_run_exit(t) ==
    [t EXCEPT !.running = FALSE, !.pc = "gone"]

----------------------------------------------------------------------------
(* registry/etcd3_registry.py: the object, its lease and its refresh timer *)

DEFAULT_LEASE_TTL == 12

LEASE_TTL_BUFFER == 4

DEFAULT_LEASE_REFRESH_INTERVAL_SECONDS == DEFAULT_LEASE_TTL

\* self._lease_periodic_refresh_timer = None
NoTimer == 0

\* Etcd3Registry.__init__ (with Lifecycle.__init__): lifecycle_state is the field of
\* Lifecycle; self._lease is the variable lease
Etcd3Registry(lease_ttl) ==
    [lifecycle_state |-> "CREATED", initialized |-> FALSE, lease_ttl |-> lease_ttl,
     lease_periodic_refresh_timer |-> NoTimer]

\* a call that ended: what it returned or raised, how many calls it made on the client, and
\* whether, when it began, a setup() had returned and a destroy() had been called
Ended(op, res, store_calls, setup_returned, destroy_called) ==
    [op |-> op, res |-> res, store_calls |-> store_calls,
     setup_returned |-> setup_returned, destroy_called |-> destroy_called]

NoneEnded == Ended("", NotCalled, 0, FALSE, FALSE)

\* the foreground thread between two calls: its latest call, whether some setup() has
\* returned, whether some destroy() has been called (and whether one had been when the
\* call in progress began)
Foreground(ended, setup_returned, destroy_called) ==
    [pc |-> "idle", op |-> "", lease_local |-> 0, was_started |-> FALSE, last |-> ended,
     setup_returned |-> setup_returned, destroy_called |-> destroy_called,
     destroy_called_before |-> destroy_called]

\* no registry under setup/destroy and no timer
LifeIdle ==
    /\ reg = Etcd3Registry(DEFAULT_LEASE_TTL)
    /\ leases = <<>>
    /\ timers = <<>>
    /\ fg = Foreground(NoneEnded, FALSE, FALSE)
    /\ fgCalls = 0

----------------------------------------------------------------------------
(* Calls that take or return key strings.  An argument is Str(raw) or an   *)
(* object that is no string; a result is what the call raised (exc, ""     *)
(* when it returned), the string (ret), Key (key) or bool (flag) returned. *)

\* an argument that is not a string, such as None
NoneObject == [type |-> "NoneType", id |-> Temp, raw |-> <<>>]

NoKey == Key(Temp, <<>>, <<>>)

KeyReturned(ret, key, flag) == [exc |-> "", ret |-> ret, key |-> key, flag |-> flag]

KeyRaised(exc) == [exc |-> exc, ret |-> <<>>, key |-> NoKey, flag |-> FALSE]

\* normalize_key(key) as a call: the assert statement of line 11 runs when assert
\* statements are compiled in (asserts); without it key.strip() fails on a non-string
normalize_key_call(asserts, key) ==
    IF key.type # "str" THEN KeyRaised(IF asserts THEN "AssertionError" ELSE "AttributeError")
    ELSE KeyReturned(normalize_key(key.raw), NoKey, FALSE)

\* Key.create(key) as a call
Key_create_call(asserts, key) ==
    LET normalized == normalize_key_call(asserts, key)
    IN  IF normalized.exc # "" THEN normalized
        ELSE KeyReturned(<<>>, Key_create(Temp, key.raw), FALSE)

\* self.relative(relative_path) as a call; relative_path is Str(raw) or a Key
Key_relative_call(self, relative_path, is_key) ==
    IF is_key THEN KeyReturned(<<>>, Key_relative(Temp, self, relative_path, TRUE), FALSE)
    ELSE IF relative_path.type = "str"
         THEN KeyReturned(<<>>, Key_relative(Temp, self, relative_path.raw, FALSE), FALSE)
    ELSE KeyRaised("TypeError")

\* self.remove_parent(parent_key) as a call
Key_remove_parent_call(self, parent_key) ==
    IF ~Key_is_a_parent(self, parent_key) THEN KeyRaised("KeyException")
    ELSE KeyReturned(<<>>, Key_remove_parent(Temp, self, parent_key), FALSE)

\* self.is_a_parent(parent) as a call
Key_is_a_parent_call(self, parent) == KeyReturned(<<>>, NoKey, Key_is_a_parent(self, parent))

\* Registry._as_key(key_or_string) as a call
Registry_as_key_call(asserts, key_or_string) ==
    IF key_or_string.type = "Key" THEN KeyReturned(<<>>, Registry_as_key(key_or_string, Temp), FALSE)
    ELSE IF key_or_string.type = "str" THEN Key_create_call(asserts, key_or_string)
    ELSE KeyRaised("AssertionError")

\* one application of a key function: the interpreter's assert setting, the arguments a
\* and b, the function applied (op, "" before the application), how often it was applied
\* (n), the argument of the latest application (arg) and its result
KeyApplication(asserts, a, b) ==
    [asserts |-> asserts, a |-> a, b |-> b, op |-> "", n |-> 0, arg |-> <<>>,
     out |-> KeyReturned(<<>>, NoKey, FALSE)]

\* no key function under application
KeysIdle == KeyApplication(TRUE, Str(<<>>), Str(<<>>))

----------------------------------------------------------------------------
(* key_factory.py : class Keys.  The functions take strings.               *)

\* Keys.__assert_valid_input(s): raises AssertionError for an invalid s; the function has
\* no return statement, so it returns None for a valid one (flag FALSE: None is not true)
Keys_assert_valid_input(s) ==
    IF Len(strip(s)) > 0 THEN KeyReturned(<<>>, NoKey, FALSE) ELSE KeyRaised("AssertionError")

\* the statement `assert Keys.__assert_valid_input(s)`: "" when execution goes on, else
\* the exception.  The statement is compiled in unless the interpreter runs with -O; the
\* call raises or returns None, and None fails the assertion.
Keys_assert_statement(asserts, s) ==
    IF ~asserts THEN ""
    ELSE IF Keys_assert_valid_input(s).exc # "" THEN Keys_assert_valid_input(s).exc
    ELSE IF ~Keys_assert_valid_input(s).flag THEN "AssertionError"
    ELSE ""

Keys_create_cluster_key(asserts, cluster_id) ==
    IF Keys_assert_statement(asserts, cluster_id) # ""
    THEN KeyRaised(Keys_assert_statement(asserts, cluster_id))
    ELSE KeyReturned(normalize_key(cluster_id), NoKey, FALSE)

Keys_create_service_base_key(asserts, cluster_id) ==
    LET cluster_key == Keys_create_cluster_key(asserts, cluster_id)
    IN  IF cluster_key.exc # "" THEN cluster_key
        ELSE KeyReturned(construct_key(<<cluster_key.ret, <<"s", "e", "r", "v", "i", "c", "e", "s">>>>),
                         NoKey, FALSE)

Keys_create_service_key(asserts, cluster_id, service_name) ==
    IF Keys_assert_statement(asserts, service_name) # ""
    THEN KeyRaised(Keys_assert_statement(asserts, service_name))
    ELSE LET base_key == Keys_create_service_base_key(asserts, cluster_id)
         IN  IF base_key.exc # "" THEN base_key
             ELSE KeyReturned(construct_key(<<base_key.ret, service_name>>), NoKey, FALSE)

Keys_create_service_members_base_key(asserts, cluster_id, service_name) ==
    LET service_key == Keys_create_service_key(asserts, cluster_id, service_name)
    IN  IF service_key.exc # "" THEN service_key
        ELSE KeyReturned(construct_key(<<service_key.ret, <<"m", "e", "m", "b", "e", "r", "s">>>>),
                         NoKey, FALSE)

Keys_create_service_instance_key(asserts, cluster_id, service_name, instance_id) ==
    IF Keys_assert_statement(asserts, instance_id) # ""
    THEN KeyRaised(Keys_assert_statement(asserts, instance_id))
    ELSE LET members_key == Keys_create_service_members_base_key(asserts, cluster_id, service_name)
         IN  IF members_key.exc # "" THEN members_key
             ELSE KeyReturned(construct_key(<<members_key.ret, instance_id>>), NoKey, FALSE)

----------------------------------------------------------------------------
(* discovery/service_discovery.py *)

\* sys.maxint, of a build with 32-bit long
sys_maxint == 2147483647

\* a dict() keyed by strings is a function on the set of its keys
EmptyDict == [k \in {} |-> 0]

\* d[k] = v
DictPut(d, k, v) == [x \in DOMAIN d \cup {k} |-> IF x = k THEN v ELSE d[x]]

\* RoundRobingServiceLocator(registry, cluster_id, service_name): the fields of the new
\* object, or the exception of Keys.create_service_members_base_key
ServiceLocator_init(asserts, cluster_id, service_name) ==
    LET members_key == Keys_create_service_members_base_key(asserts, cluster_id, service_name)
    IN  [exc |-> members_key.exc, cluster_id |-> cluster_id, service_name |-> service_name,
         service_members_key |-> members_key.ret, justice_table |-> EmptyDict]

\* a table that has forgotten every count
justice_table_get_forgetful(justice_table, member) == 0

\* self._justice_table.get(member, 0)
justice_table_get(justice_table, member) ==
    IF member \in DOMAIN justice_table THEN justice_table[member] ELSE 0

\* the local variables of find_service after line 95; None is held as <<>>, a found
\* instance as <<member>>
find_service_locals(existing_members) ==
    [existing_members |-> existing_members, least_used_instance_id |-> <<>>,
     lowest_frequency |-> sys_maxint, new_justice_table |-> EmptyDict]

\* an iteration that takes every member it meets for the least used one
find_service_iteration_last_member(locals, justice_table) ==
    LET member          == Head(locals.existing_members)
        usage_frequency == justice_table_get(justice_table, member)
    IN  [existing_members       |-> Tail(locals.existing_members),
         least_used_instance_id |-> <<member>>,
         lowest_frequency       |-> usage_frequency,
         new_justice_table      |-> DictPut(locals.new_justice_table, member, usage_frequency)]

\* an iteration that prefers the later of two members with the same count
find_service_iteration_last_minimal(locals, justice_table) ==
    LET member          == Head(locals.existing_members)
        usage_frequency == justice_table_get(justice_table, member)
        lower           == usage_frequency <= locals.lowest_frequency
    IN  [existing_members       |-> Tail(locals.existing_members),
         least_used_instance_id |-> IF lower THEN <<member>> ELSE locals.least_used_instance_id,
         lowest_frequency       |-> IF lower THEN usage_frequency ELSE locals.lowest_frequency,
         new_justice_table      |-> DictPut(locals.new_justice_table, member, usage_frequency)]

\* one iteration of the loop of lines 96-100, on the next of the remaining members
find_service_iteration(locals, justice_table) ==
    LET member          == Head(locals.existing_members)
        usage_frequency == justice_table_get(justice_table, member)
        lower           == usage_frequency < locals.lowest_frequency
    IN  [existing_members       |-> Tail(locals.existing_members),
         least_used_instance_id |-> IF lower THEN <<member>> ELSE locals.least_used_instance_id,
         lowest_frequency       |-> IF lower THEN usage_frequency ELSE locals.lowest_frequency,
         new_justice_table      |-> DictPut(locals.new_justice_table, member, usage_frequency)]

\* a find_service that stores the new table before it looks for the found instance
find_service_end_table_first(locals, justice_table) ==
    IF locals.least_used_instance_id = <<>>
    THEN [exc |-> "ServiceUnavailableException", ret |-> <<>>, justice_table |-> locals.new_justice_table]
    ELSE [exc |-> "", ret |-> locals.least_used_instance_id,
          justice_table |-> DictPut(locals.new_justice_table, locals.least_used_instance_id[1],
                                    locals.lowest_frequency + 1)]

\* lines 102-109 after the loop: what the call raises or returns (ret, <<member>>) and
\* the value of self._justice_table when it ends
find_service_end(locals, justice_table) ==
    IF locals.least_used_instance_id = <<>>
    THEN [exc |-> "ServiceUnavailableException", ret |-> <<>>, justice_table |-> justice_table]
    ELSE [exc |-> "", ret |-> locals.least_used_instance_id,
          justice_table |-> DictPut(locals.new_justice_table, locals.least_used_instance_id[1],
                                    locals.lowest_frequency + 1)]

\* registry.list_keys(parent_key) on an Etcd3Registry, parent_key a string: the lists the
\* call may return (recursive and keep_order are False, so the dict keeps no order)
Etcd3Registry_list_keys(store, parent_key) ==
    {Keys(d) : d \in Etcd3Registry_get(store, Registry_as_key(Str(parent_key), Temp),
                                       FALSE, FALSE, TRUE, TRUE)}

\* a caller of find_service: where it is in the call (pc "idle" or "loop"), its local
\* variables, the list it fetched, and what held when it entered: the table, whether the
\* members key had no immediate child, and whether another call was under way then or
\* began since
LocatorCaller ==
    [pc |-> "idle", locals |-> find_service_locals(<<>>), fetched |-> <<>>, before |-> EmptyDict,
     no_children |-> FALSE, overlapped |-> FALSE]

LocatorCallers == {1, 2}

\* the latest call of a Keys function
KeysCalled(fn, cluster_id, service_name, instance_id, out) ==
    [fn |-> fn, cluster_id |-> cluster_id, service_name |-> service_name,
     instance_id |-> instance_id, out |-> out]

\* the latest find_service call that ended: what it raised or returned, what held when
\* it was entered, whether a table was stored then (had_table), whether its last step
\* changed self._justice_table (wrote) and whether the table it left differs from the
\* one it found (changed)
FindEnded(ended, exc, ret, no_children, overlapped, before, prior, after) ==
    [ended |-> ended, exc |-> exc, ret |-> ret, no_children |-> no_children,
     overlapped |-> overlapped, had_table |-> before # EmptyDict, wrote |-> after # prior,
     changed |-> after # before]

\* A process and the locator it makes.  state is "none" before the constructor is
\* called, "constructed" when it returned, "failed" when it raised (exc).  The fields from
\* callers on record the calls: the callers, how often each member was returned, the
\* calls begun and the calls that returned a member, whether the set of members stayed
\* as it was since the first call, whether no two calls overlapped, and the latest calls.
\* base is the revision of the store when the process starts.
Locator(asserts) ==
    [asserts |-> asserts, state |-> "none", exc |-> "", base |-> 0,
     service_name |-> <<>>, service_members_key |-> <<>>, justice_table |-> EmptyDict,
     callers |-> [c \in LocatorCallers |-> LocatorCaller],
     returned |-> EmptyDict, finds |-> 0, done |-> 0, stable |-> TRUE, serial |-> TRUE,
     keys |-> KeysCalled("", <<>>, <<>>, <<>>, KeyReturned(<<>>, NoKey, FALSE)),
     last |-> FindEnded(FALSE, "", <<>>, FALSE, FALSE, EmptyDict, EmptyDict, EmptyDict)]

\* no locator
LocatorIdle == Locator(TRUE)

----------------------------------------------------------------------------
(* The state *)

Call(op, caller, arg, value, values, recursive, keep_order, pre, mem, store) ==
    [op |-> op, caller |-> caller, arg |-> arg, value |-> value, values |-> values,
     recursive |-> recursive, keep_order |-> keep_order, pre |-> pre, mem |-> mem, etcd |-> store]

NoCall == Call("", 0, NoArg, "", <<>>, FALSE, FALSE, <<>>, NotCalled, NotCalled)

\* what the put calls so far are meant to have stored: a dictionary keyed by canonical
\* key string, in the order of first creation, with the value of the latest put
RECURSIVE Stored(_)
Stored(h) ==
    IF h = <<>> THEN <<>>
    ELSE StrDictSet(Stored(SubSeq(h, 1, Len(h) - 1)), h[Len(h)][1], h[Len(h)][2])

Init ==
    /\ model = <<>>
    /\ etcd = {}
    /\ revision = 0
    /\ lease = NoLease
    /\ hist = <<>>
    /\ last = NoCall
    /\ prev = NoCall
    /\ calls = 0
    /\ LifeIdle
    /\ loc = LocatorIdle
    /\ kt = KeysIdle

\* registry.put(k, v), on the in-memory registry and on the etcd3 registry
Put(arg, v) ==
    /\ calls < MaxCalls
    /\ calls' = calls + 1
    /\ LET k    == Registry_as_key(arg, NewId(model))
           mem  == InMemoryRegistry_put(model, <<<<k, v>>>>, <<>>)
           done == Etcd3Registry_put(etcd, revision, lease, <<<<k, v>>>>, <<>>)
       IN  /\ model' = mem.model
           /\ etcd' = done.store
           /\ revision' = done.revision
           /\ hist' = Append(hist, <<k.key, v>>)
           /\ last' = Call("put", 1, arg, v, <<>>, FALSE, FALSE, Stored(hist), mem.res, done.res)
    /\ prev' = NoCall
    /\ UNCHANGED lease
    /\ UNCHANGED <<lifeVars, loc, kt>>

\* registry.get(k)
Get(arg) ==
    /\ calls < MaxCalls
    /\ calls' = calls + 1
    /\ LET k == Registry_as_key(arg, NewId(model))
       IN  last' = Call("get", 1, arg, "", <<>>, FALSE, FALSE, Stored(hist),
                        InMemoryRegistry_get_one(model, k), Etcd3Registry_get_one(etcd, k))
    /\ prev' = NoCall
    /\ UNCHANGED <<model, etcd, revision, lease, hist>>
    /\ UNCHANGED <<lifeVars, loc, kt>>

\* registry.list_keys(parent_key, recursive, keep_order)
ListKeys(arg, recursive, keep_order) ==
    /\ calls < MaxCalls
    /\ calls' = calls + 1
    /\ LET k == Registry_as_key(arg, NewId(model))
       IN  \E d \in Etcd3Registry_get(etcd, k, recursive, keep_order, TRUE, TRUE) :
              last' = Call("list_keys", 1, arg, "", <<>>, recursive, keep_order, Stored(hist),
                           ReturnedDict(Registry_list(
                               InMemoryRegistry_get(model, k, recursive, keep_order, TRUE, TRUE))),
                           ReturnedDict(Registry_list(d)))
    /\ prev' = NoCall
    /\ UNCHANGED <<model, etcd, revision, lease, hist>>
    /\ UNCHANGED <<lifeVars, loc, kt>>

\* registry.fetch(parent_key, recursive, keep_order)
Fetch(arg, recursive, keep_order) ==
    /\ calls < MaxCalls
    /\ calls' = calls + 1
    /\ LET k == Registry_as_key(arg, NewId(model))
       IN  \E d \in Etcd3Registry_get(etcd, k, recursive, keep_order, FALSE, TRUE) :
              last' = Call("fetch", 1, arg, "", <<>>, recursive, keep_order, Stored(hist),
                           ReturnedDict(InMemoryRegistry_get(model, k, recursive, keep_order, FALSE, TRUE)),
                           ReturnedDict(d))
    /\ prev' = NoCall
    /\ UNCHANGED <<model, etcd, revision, lease, hist>>
    /\ UNCHANGED <<lifeVars, loc, kt>>

\* registry.put_if_not_exist(k, value) by one of two callers.  The call is one step: its
\* first statement, k = self._to_key(k), raises before the registry is read or written.
PutIfNotExist(c, arg, value) ==
    /\ calls < MaxCalls
    /\ calls' = calls + 1
    /\ IF ~HasAttr("_to_key")
       THEN /\ last' = Call("put_if_not_exist", c, arg, value, <<>>, FALSE, FALSE, Stored(hist),
                            Raised("AttributeError"), Raised("AttributeError"))
            /\ UNCHANGED <<model, etcd, revision, hist>>
       ELSE \* self._put((k, value), k): the pair itself is passed where a list of pairs is
            \* expected, and iterating over it unpacks the Key
            LET k == Registry_as_key(arg, NewId(model))
            IN  /\ last' = Call("put_if_not_exist", c, arg, value, <<>>, FALSE, FALSE, Stored(hist),
                                IF DictContains(model, k) THEN Returned("False") ELSE Raised("TypeError"),
                                Raised("TypeError"))
                /\ UNCHANGED <<model, etcd, revision, hist>>
    /\ prev' = IF last.op = "put_if_not_exist" THEN last ELSE NoCall
    /\ UNCHANGED lease
    /\ UNCHANGED <<lifeVars, loc, kt>>

\* registry.put_all(values)
PutAll(in) ==
    /\ calls < MaxCalls
    /\ calls' = calls + 1
    /\ IF ~HasAttr("_to_kv_list")
       THEN /\ last' = Call("put_all", 1, NoArg, "", in.values, FALSE, FALSE, Stored(hist),
                            Raised("AttributeError"), Raised("AttributeError"))
            /\ UNCHANGED <<model, etcd, revision, hist>>
       ELSE LET kv == Registry_to_tuple_list(in.shape, in.values)
                mem  == InMemoryRegistry_put(model, kv.pair_list, <<>>)
                done == Etcd3Registry_put(etcd, revision, lease, kv.pair_list, <<>>)
            IN  IF kv.exc # "" \/ kv.pair_list = <<>>
                THEN /\ last' = Call("put_all", 1, NoArg, "", in.values, FALSE, FALSE, Stored(hist),
                                     Raised(kv.exc), Raised(kv.exc))
                     /\ UNCHANGED <<model, etcd, revision, hist>>
                ELSE /\ model' = mem.model
                     /\ etcd' = done.store
                     /\ revision' = done.revision
                     /\ hist' = hist \o [i \in DOMAIN kv.pair_list |->
                                            <<kv.pair_list[i][1].key, kv.pair_list[i][2]>>]
                     /\ last' = Call("put_all", 1, NoArg, "", in.values, FALSE, FALSE, Stored(hist),
                                     Returned("None"), Returned("None"))
    /\ prev' = NoCall
    /\ UNCHANGED lease
    /\ UNCHANGED <<lifeVars, loc, kt>>

Next ==
    \/ \E in \in PutInputs : Put(in[1], in[2])
    \/ \E arg \in KeyArgs : Get(arg)
    \/ \E arg \in ParentArgs, recursive \in BOOLEAN, keep_order \in BOOLEAN :
          ListKeys(arg, recursive, keep_order)
    \/ \E arg \in ParentArgs, recursive \in BOOLEAN, keep_order \in BOOLEAN :
          Fetch(arg, recursive, keep_order)
    \/ \E c \in Callers, in \in ConditionalInputs : PutIfNotExist(c, in[1], in[2])
    \/ \E in \in PutAllInputs : PutAll(in)

Spec == Init /\ [][Next]_vars

----------------------------------------------------------------------------
(* What the claims are stated against *)

\* the segments of a canonical key string
Segments(k) == Tail(split(k))

IsDescendant(k, p) ==
    /\ Len(Segments(k)) > Len(Segments(p))
    /\ SubSeq(Segments(k), 1, Len(Segments(p))) = Segments(p)

IsChild(k, p) == IsDescendant(k, p) /\ Len(Segments(k)) = Len(Segments(p)) + 1

\* the canonical keys that put calls have stored
StoredKeys == KeySet(Stored(hist))

\* the stored keys a listing of parent p has to return
Expected(p, recursive) ==
    {k \in StoredKeys : IF recursive THEN IsDescendant(k, p) ELSE IsChild(k, p)}

\* the canonical keys of the put calls in the order in which each was first stored
RECURSIVE FirstCreated(_)
FirstCreated(h) ==
    IF h = <<>> THEN <<>>
    ELSE LET before == FirstCreated(SubSeq(h, 1, Len(h) - 1))
             k      == h[Len(h)][1]
         IN  IF \E i \in DOMAIN before : before[i] = k THEN before ELSE Append(before, k)

Position(s, k) == CHOOSE i \in DOMAIN s : s[i] = k

InCreationOrder(keys) ==
    \A i, j \in DOMAIN keys :
        i < j => Position(FirstCreated(hist), keys[i]) < Position(FirstCreated(hist), keys[j])

\* the in-memory registry holds value v under the canonical key k
MemHolds(k, v) == \E i \in DOMAIN model : model[i].k.key = k /\ model[i].v = v

\* the store holds value v under the canonical key k of the etcd3 registry
EtcdHolds(k, v) == \E e \in etcd : e.key = ROOT_KEY.key \o k /\ e.value = v

\* a call of put_if_not_exist on a key that was absent returned True and stored the value;
\* on a key that was present it returned False
PutIfNotExistDone(call, res, holds) ==
    IF Canonical(call.arg) \notin KeySet(call.pre)
    THEN res = Returned("True") /\ holds
    ELSE res = Returned("False")

----------------------------------------------------------------------------
(* Claims *)

\* C1: put_if_not_exist(k, v) returns true iff k was absent before the call, and then k
\* maps to v; if k was present it returns false.  The first call on a key of an empty
\* registry therefore returns true with the value stored, on both backends.
C1_PutIfNotExist ==
    last.op = "put_if_not_exist" =>
        /\ PutIfNotExistDone(last, last.mem, MemHolds(Canonical(last.arg), last.value))
        /\ PutIfNotExistDone(last, last.etcd, EtcdHolds(Canonical(last.arg), last.value))

\* C2: when two callers call put_if_not_exist on the same absent key, exactly one of the
\* two calls returns true, and the stored value is the value of that call.
C2_PutIfNotExistAtomic ==
    (/\ prev.op = "put_if_not_exist" /\ last.op = "put_if_not_exist"
     /\ prev.caller # last.caller
     /\ Canonical(prev.arg) = Canonical(last.arg)
     /\ Canonical(prev.arg) \notin KeySet(prev.pre))
    => /\ (prev.mem = Returned("True")) # (last.mem = Returned("True"))
       /\ (prev.etcd = Returned("True")) # (last.etcd = Returned("True"))
       /\ MemHolds(Canonical(prev.arg), IF prev.mem = Returned("True") THEN prev.value ELSE last.value)

\* C3: after put(k, v), get(k') returns v for every k' with the canonical key string of k,
\* given as a string or as a separately built Key object, and a later put to the same
\* canonical key makes no second entry.
C3_GetReturnsWhatWasPut ==
    /\ (last.op = "get" /\ Canonical(last.arg) \in StoredKeys) =>
            /\ last.mem = Returned(ValueOf(Stored(hist), Canonical(last.arg)))
            /\ last.etcd = Returned(ValueOf(Stored(hist), Canonical(last.arg)))
    /\ \A i, j \in DOMAIN model : model[i].k.key = model[j].k.key => i = j

\* C4: after put_all(values) returns, for a dict, a single pair or a list of pairs, every
\* pair (k, v) of the input is stored on both backends.
C4_PutAllStoresEveryPair ==
    last.op = "put_all" =>
        /\ last.mem.exc = "" /\ last.etcd.exc = ""
        /\ \A i \in DOMAIN last.values :
              /\ MemHolds(Canonical(last.values[i][1]), last.values[i][2])
              /\ EtcdHolds(Canonical(last.values[i][1]), last.values[i][2])

\* C6: get(k) on a registry in which k was never stored raises KeyDoesNotExist and leaves
\* the store unchanged, also when descendants of k are stored.
C6_GetMissingKeyRaises ==
    [][(/\ calls' # calls
        /\ last'.op = "get"
        /\ Canonical(last'.arg) \notin StoredKeys)
       => (/\ last'.mem = Raised("KeyDoesNotExist")
           /\ last'.etcd = Raised("KeyDoesNotExist")
           /\ model' = model /\ etcd' = etcd /\ hist' = hist)]_vars

\* a get of /p, never stored, raised KeyDoesNotExist while /p/a and /p/a/x are stored
C6_Witness ==
    /\ last.op = "get" /\ last.arg = Str(s_p)
    /\ s_p \notin StoredKeys /\ {s_pa, s_pax} \subseteq StoredKeys
    /\ last.mem = Raised("KeyDoesNotExist") /\ last.etcd = Raised("KeyDoesNotExist")

C8_FetchAgreesWithListKeysAndGet ==
    last.op = "fetch" =>
        LET k == Registry_as_key(last.arg, NewId(model))
        IN  /\ KeySet(last.mem.items)
                 = KeySet(Registry_list(InMemoryRegistry_get(model, k, last.recursive, last.keep_order, TRUE, TRUE)))
            /\ \E d \in Etcd3Registry_get(etcd, k, last.recursive, last.keep_order, TRUE, TRUE) :
                 KeySet(last.etcd.items) = KeySet(Registry_list(d))
            /\ \A i \in DOMAIN last.mem.items :
                 InMemoryRegistry_get_one(model, Registry_as_key(Str(last.mem.items[i].k), NewId(model)))
                     = Returned(last.mem.items[i].v)
            /\ \A i \in DOMAIN last.etcd.items :
                 Etcd3Registry_get_one(etcd, Registry_as_key(Str(last.etcd.items[i].k), NewId(model)))
                     = Returned(last.etcd.items[i].v)

\* C9: with keep_order=true, list_keys and fetch return the matching keys in the order in
\* which the keys were first created; a later put to an existing key does not move it.
C9_KeepOrderIsCreationOrder ==
    (last.op \in {"list_keys", "fetch"} /\ last.keep_order) =>
        /\ KeySet(last.mem.items) \subseteq StoredKeys
        /\ KeySet(last.etcd.items) \subseteq StoredKeys
        /\ InCreationOrder(Keys(last.mem.items))
        /\ InCreationOrder(Keys(last.etcd.items))

\* /p/a was stored, then /p/b, then /p/a again: an ordered fetch returns /p/a before /p/b
C9_Witness ==
    /\ last.op = "fetch" /\ last.keep_order /\ last.arg = Str(s_p)
    /\ hist = <<<<s_pa, "1">>, <<s_pb, "1">>, <<s_pa, "2">>>>
    /\ last.mem.items = <<[k |-> s_pa, v |-> "2"], [k |-> s_pb, v |-> "1"]>>
    /\ last.etcd.items = last.mem.items

\* C10: driven by the same put calls from the empty state, list_keys and fetch return the
\* same keys and the same values on the in-memory backend and on the etcd3 backend.
C10_BackendsAgree ==
    last.op \in {"list_keys", "fetch"} =>
        /\ KeySet(last.mem.items) = KeySet(last.etcd.items)
        /\ \A k \in KeySet(last.mem.items) : ValueOf(last.mem.items, k) = ValueOf(last.etcd.items, k)

----------------------------------------------------------------------------
(* The lifecycle of an Etcd3Registry: one foreground thread calling setup(), destroy()   *)
(* and the public operations, and the threads of the refresh timers setup() started.   *)

\* foreground calls in one behaviour
MaxOps == 3

\* PeriodicTimer objects in one behaviour
MaxTimers == 2

\* callback invocations of one timer made by a test
MaxInvocations == 4

\* callback invocations of one refresh timer of the registry
MaxRefreshes == 1

\* the lease_ttl arguments of Etcd3Registry(details, lease_ttl): the assertion of __init__
\* accepts the integers greater than 1
LeaseTtls == {2, DEFAULT_LEASE_TTL}

\* client.lease(ttl): a lease of the store
Lease(ttl) == [ttl |-> ttl, revoked |-> FALSE, refreshed_after_revoke |-> FALSE]

\* the outcomes of setup(): it returns, client.lease raises, or Thread.start raises
SetupOutcomes == {"ok", "lease_fails", "start_fails"}

\* the key and the value of the public operations called around setup() and destroy()
LifeKey == Registry_as_key(Str(s_pa), Temp)

LifeParent == Registry_as_key(Str(s_p), Temp)

LifeValue == "1"

\* the foreground thread when its call op ends
EndCall(op, res, store_calls) ==
    Foreground(Ended(op, res, store_calls, fg.setup_returned, fg.destroy_called_before),
               fg.setup_returned \/ (op = "setup" /\ res.exc = ""),
               fg.destroy_called)

LifeInit ==
    /\ model = <<>>
    /\ hist = <<>>
    /\ last = NoCall
    /\ prev = NoCall
    /\ calls = 0
    /\ etcd = {}
    /\ revision = 0
    /\ lease = NoLease
    /\ reg \in {Etcd3Registry(ttl) : ttl \in LeaseTtls}
    /\ leases = <<>>
    /\ timers = <<>>
    /\ fg = Foreground(NoneEnded, FALSE, FALSE)
    /\ fgCalls = 0
    /\ loc = LocatorIdle
    /\ kt = KeysIdle

\* Etcd3Registry.setup()
Setup(outcome) ==
    /\ fg.pc = "idle"
    /\ fgCalls < MaxOps
    /\ Len(timers) < MaxTimers
    /\ fgCalls' = fgCalls + 1
    /\ IF outcome = "lease_fails"
       THEN /\ reg' = [reg EXCEPT !.initialized = FALSE]
            /\ fg' = EndCall("setup", Raised("Exception"), 1)
            /\ UNCHANGED <<lease, leases, timers>>
       ELSE LET timer   == PeriodicTimer(DEFAULT_LEASE_REFRESH_INTERVAL_SECONDS, LeaseRefreshHandler)
                started == PeriodicTimer_start(timer)
            IN  /\ leases' = Append(leases, Lease(reg.lease_ttl + LEASE_TTL_BUFFER))
                /\ lease' = Len(leases) + 1
                /\ IF outcome = "ok" /\ started.exc = ""
                   THEN /\ timers' = Append(timers, started.timer)
                        /\ reg' = [reg EXCEPT !.initialized = TRUE,
                                              !.lease_periodic_refresh_timer = Len(timers) + 1]
                        /\ fg' = EndCall("setup", Returned("None"), 1)
                   ELSE /\ timers' = Append(timers, timer)
                        /\ reg' = [reg EXCEPT !.initialized = FALSE,
                                              !.lease_periodic_refresh_timer = Len(timers) + 1]
                        /\ fg' = EndCall("setup", Raised("thread.error"), 1)
    /\ UNCHANGED <<etcd, revision>>
    /\ UNCHANGED <<callVars, loc, kt>>

\* Etcd3Registry.destroy(), lines 143-145: lease = self._lease; self._lease = None
DestroyBegin ==
    /\ fg.pc = "idle"
    /\ fgCalls < MaxOps
    /\ fgCalls' = fgCalls + 1
    /\ IF lease # NoLease
       THEN /\ fg' = [fg EXCEPT !.pc = "d_revoke", !.op = "destroy", !.lease_local = lease,
                                 !.destroy_called = TRUE]
            /\ lease' = NoLease
       ELSE /\ fg' = [fg EXCEPT !.pc = "d_stop", !.op = "destroy", !.destroy_called = TRUE]
            /\ UNCHANGED lease
    /\ UNCHANGED <<etcd, revision, reg, leases, timers>>
    /\ UNCHANGED <<callVars, loc, kt>>

\* Etcd3Registry.destroy(), line 146: lease.revoke(); the store deletes the entries of the
\* lease.  The call raises when the store cannot be reached.
DestroyRevoke(ok) ==
    /\ fg.pc = "d_revoke"
    /\ IF ok
       THEN /\ leases' = [leases EXCEPT ![fg.lease_local].revoked = TRUE]
            /\ etcd' = {e \in etcd : e.lease # fg.lease_local}
            /\ fg' = [fg EXCEPT !.pc = "d_stop"]
       ELSE /\ fg' = EndCall("destroy", Raised("Exception"), 1)
            /\ UNCHANGED <<leases, etcd>>
    /\ UNCHANGED <<revision, lease, reg, timers, fgCalls>>
    /\ UNCHANGED <<callVars, loc, kt>>

\* Etcd3Registry.destroy(), line 149: self._lease_periodic_refresh_timer.stop(), up to the join
DestroyStop ==
    /\ fg.pc = "d_stop"
    /\ LET i == reg.lease_periodic_refresh_timer
       IN  IF i = NoTimer
           THEN /\ fg' = EndCall("destroy", Raised("AttributeError"), 0)
                /\ UNCHANGED timers
           ELSE /\ timers' = [timers EXCEPT ![i] = PeriodicTimer_stop(@)]
                /\ fg' = [fg EXCEPT !.pc = "d_join"]
    /\ UNCHANGED <<etcd, revision, lease, reg, leases, fgCalls>>
    /\ UNCHANGED <<callVars, loc, kt>>

\* Etcd3Registry.destroy(), the join of stop() and lines 150-152
DestroyEnd ==
    /\ fg.pc = "d_join"
    /\ LET i == reg.lease_periodic_refresh_timer
       IN  /\ Thread_join(timers[i])
           /\ timers' = [timers EXCEPT ![i] = PeriodicTimer_stop_returned(@, @.pc # "initial")]
    /\ reg' = [reg EXCEPT !.lease_periodic_refresh_timer = NoTimer, !.initialized = FALSE]
    /\ fg' = EndCall("destroy", Returned("None"), 1)
    /\ UNCHANGED <<etcd, revision, lease, leases, fgCalls>>
    /\ UNCHANGED <<callVars, loc, kt>>

\* the start and the end of a public operation of the registry under setup/destroy
PublicCall(op, store, rev, res, store_calls) ==
    /\ fg.pc = "idle"
    /\ fgCalls < MaxOps
    /\ fgCalls' = fgCalls + 1
    /\ etcd' = store
    /\ revision' = rev
    /\ fg' = EndCall(op, res, store_calls)
    /\ UNCHANGED <<lease, reg, leases, timers>>
    /\ UNCHANGED <<callVars, loc, kt>>

\* registry.put(k, v)
LifePut ==
    LET done == Etcd3Registry_put(etcd, revision, lease, <<<<LifeKey, LifeValue>>>>, <<>>)
    IN  PublicCall("put", done.store, done.revision, done.res, 1)

\* registry.get(k)
LifeGet == PublicCall("get", etcd, revision, Etcd3Registry_get_one(etcd, LifeKey), 1)

\* registry.list_keys(parent_key, keep_order=True)
LifeListKeys ==
    \E d \in Etcd3Registry_get(etcd, LifeParent, FALSE, TRUE, TRUE, TRUE) :
        PublicCall("list_keys", etcd, revision, ReturnedDict(Registry_list(d)), 1)

\* registry.fetch(parent_key, keep_order=True)
LifeFetch ==
    \E d \in Etcd3Registry_get(etcd, LifeParent, FALSE, TRUE, FALSE, TRUE) :
        PublicCall("fetch", etcd, revision, ReturnedDict(d), 1)

\* registry.put_if_not_exist(k, v): raises at its first statement
LifePutIfNotExist ==
    /\ ~HasAttr("_to_key")
    /\ PublicCall("put_if_not_exist", etcd, revision, Raised("AttributeError"), 0)

\* registry.put_all(values): raises at its first statement
LifePutAll ==
    /\ ~HasAttr("_to_kv_list")
    /\ PublicCall("put_all", etcd, revision, Raised("AttributeError"), 0)

(* The thread of timer i *)

ThreadStep(i, timer) ==
    /\ timers' = [timers EXCEPT ![i] = timer]
    /\ UNCHANGED <<etcd, revision, lease, reg, leases, fg, fgCalls>>
    /\ UNCHANGED <<callVars, loc, kt>>

\* _run, line 100
ThreadRun(i) ==
    /\ timers[i].pc = "run"
    /\ ThreadStep(i, PeriodicTimer_run_enter(timers[i]))

\* _run, line 106
ThreadWait(i) ==
    /\ timers[i].pc = "wait"
    /\ \/ timers[i].stop_event
       \/ timers[i].invocations <
             (IF timers[i].callback = LeaseRefreshHandler THEN MaxRefreshes ELSE MaxInvocations)
    /\ ThreadStep(i, PeriodicTimer_run_wait(timers[i]))

\* _run, lines 127-128
ThreadExit(i) ==
    /\ timers[i].pc = "exit"
    /\ ThreadStep(i, PeriodicTimer_run_exit(timers[i]))

\* __periodic_lease_refresh_handler, line 267: if self._lease is not None
HandlerCheck(i) ==
    /\ timers[i].pc = "callback"
    /\ timers[i].callback = LeaseRefreshHandler
    /\ ThreadStep(i, IF lease = NoLease THEN PeriodicTimer_run_callback_returned(timers[i])
                     ELSE [timers[i] EXCEPT !.pc = "h_load"])

\* line 270, the read of self._lease: on None the attribute lookup of refresh raises
\* AttributeError inside the try
HandlerLoad(i) ==
    /\ timers[i].pc = "h_load"
    /\ ThreadStep(i, IF lease = NoLease
                     THEN [timers[i] EXCEPT !.pc = "h_log", !.refresh_failures = @ + 1]
                     ELSE [timers[i] EXCEPT !.pc = "h_call", !.lease_ref = lease])

\* line 270, the call of refresh() on the lease that was read; it raises when the store
\* cannot be reached
HandlerRefresh(i, ok) ==
    /\ timers[i].pc = "h_call"
    /\ leases' = [leases EXCEPT ![timers[i].lease_ref].refreshed_after_revoke = @ \/ leases[timers[i].lease_ref].revoked]
    /\ timers' = [timers EXCEPT ![i] =
                    IF ok THEN [PeriodicTimer_run_callback_returned(@) EXCEPT !.refresh_failures = 0]
                    ELSE [@ EXCEPT !.pc = "h_log", !.refresh_failures = @ + 1]]
    /\ UNCHANGED <<etcd, revision, lease, reg, fg, fgCalls>>
    /\ UNCHANGED <<callVars, loc, kt>>

\* lines 271-272: except: logger.exception("...".format(self._lease.id)); on None the
\* attribute lookup of id raises AttributeError out of the handler
HandlerLog(i) ==
    /\ timers[i].pc = "h_log"
    /\ ThreadStep(i, IF lease = NoLease THEN PeriodicTimer_run_callback_raised(timers[i])
                     ELSE PeriodicTimer_run_callback_returned(timers[i]))

LifeNext ==
    \/ \E outcome \in SetupOutcomes : Setup(outcome)
    \/ DestroyBegin
    \/ \E ok \in BOOLEAN : DestroyRevoke(ok)
    \/ DestroyStop
    \/ DestroyEnd
    \/ LifePut
    \/ LifeGet
    \/ LifeListKeys
    \/ LifeFetch
    \/ LifePutIfNotExist
    \/ LifePutAll
    \/ \E i \in DOMAIN timers : ThreadRun(i)
    \/ \E i \in DOMAIN timers : ThreadWait(i)
    \/ \E i \in DOMAIN timers : ThreadExit(i)
    \/ \E i \in DOMAIN timers : HandlerCheck(i)
    \/ \E i \in DOMAIN timers : HandlerLoad(i)
    \/ \E i \in DOMAIN timers, ok \in BOOLEAN : HandlerRefresh(i, ok)
    \/ \E i \in DOMAIN timers : HandlerLog(i)

LifeSpec == LifeInit /\ [][LifeNext]_vars

----------------------------------------------------------------------------
(* The lifecycle claims, stated against LifeSpec *)

PublicOps == {"put", "put_if_not_exist", "put_all", "get", "list_keys", "fetch"}

\* the refresh timers of the registry
RefreshTimers == {i \in DOMAIN timers : timers[i].callback = LeaseRefreshHandler}

\* the timers whose background loop is running
LiveTimers == {i \in DOMAIN timers : Thread_is_alive(timers[i])}

\* the leases the store still holds for the registry
HeldLeases == {l \in DOMAIN leases : ~leases[l].revoked}

\* C11: DESTROYED is terminal: a setup() that is called after a destroy() was called does
\* not succeed and leaves the registry unusable (not INITIALIZED, no running timer of its own).
C11_DestroyedIsTerminal ==
    (fg.last.op = "setup" /\ fg.last.destroy_called) =>
        /\ fg.last.res.exc # ""
        /\ reg.lifecycle_state # "INITIALIZED"
        /\ ~reg.initialized

\* C12: a public operation called before setup() has returned or after destroy() was called
\* fails with a lifecycle error and makes no call on the coordination store.
C12_OperationsAssertInitialized ==
    (fg.last.op \in PublicOps /\ (~fg.last.setup_returned \/ fg.last.destroy_called)) =>
        /\ fg.last.res.exc = "LifecycleException"
        /\ fg.last.store_calls = 0

\* C13: every entry of the coordination store written through the registry carries a lease.
C13_EveryEntryCarriesALease ==
    \A e \in etcd : e.lease # NoLease

\* C14: the interval of the refresh timer that setup() starts equals the configured lease
\* TTL, so it never exceeds it.
C14_RefreshIntervalIsConfiguredTtl ==
    \A i \in RefreshTimers :
        /\ timers[i].interval = reg.lease_ttl
        /\ timers[i].interval <= reg.lease_ttl

\* C15: every failed lease refresh counts toward the failure threshold of the timer: between
\* two invocations the failure count of a refresh timer is the number of refreshes that
\* failed in a row, and the loop is told to stop once that number reaches the threshold.
C15_FailedRefreshesAreCounted ==
    \A i \in RefreshTimers :
        timers[i].pc \in {"wait", "exit", "gone"} =>
            /\ PeriodicTimer_failure_count(timers[i]) = timers[i].refresh_failures
            /\ PeriodicTimer_threshold(timers[i], timers[i].refresh_failures) => timers[i].stop_event

\* C16: destroy() revokes the lease before it stops the timer, discards the timer before
\* it marks the registry, and when it returns the registry is marked DESTROYED; the registry
\* is never DESTROYED with a timer still running.
C16_DestroyOrder ==
    /\ (fg.op = "destroy" /\ fg.pc \in {"d_stop", "d_join"}) =>
          /\ lease = NoLease
          /\ fg.lease_local # 0 => leases[fg.lease_local].revoked
    /\ (fg.op = "destroy" /\ fg.pc = "d_revoke") =>
          /\ reg.lease_periodic_refresh_timer # NoTimer
          /\ ~timers[reg.lease_periodic_refresh_timer].stop_returned
    /\ (fg.last.op = "destroy" /\ fg.pc = "idle" /\ fg.last.res.exc = "") =>
          /\ reg.lease_periodic_refresh_timer = NoTimer
          /\ reg.lifecycle_state = "DESTROYED"
    /\ reg.lifecycle_state = "DESTROYED" => LiveTimers = {}

\* C17: after a setup() that raised the registry is not INITIALIZED, and after a setup()
\* that returned its lifecycle state is INITIALIZED.
C17_InitializedAfterBothSteps ==
    fg.last.op = "setup" =>
        /\ fg.last.res.exc # "" => (reg.lifecycle_state # "INITIALIZED" /\ ~reg.initialized)
        /\ fg.last.res.exc = "" => reg.lifecycle_state = "INITIALIZED"

\* C18: at any time at most one refresh loop runs for the registry and the registry holds at
\* most one lease that was not revoked.
C18_OneLoopOneLease ==
    /\ Cardinality(LiveTimers) <= 1
    /\ Cardinality(HeldLeases) <= 1

\* C34: the lease-refresh callback never lets an exception reach the PeriodicTimer: when
\* the refresh call fails, and under every interleaving with a destroy() that clears the
\* lease reference and revokes the lease, the callback reports the failure and returns,
\* so the loop of a refresh timer never sees an invocation that raised.
C34_RefreshHandlerNeverRaises ==
    \A i \in DOMAIN timers :
        timers[i].callback = LeaseRefreshHandler => timers[i].failures = 0

\* C38: no refresh is issued on a lease after the lease was revoked, under any interleaving
\* of the refresh callback with destroy().  destroy() revokes the lease the registry held
\* when it began, so a refresh issued after destroy() returned is on a revoked lease too.
C38_NoRefreshAfterRevoke ==
    \A l \in DOMAIN leases : ~leases[l].refreshed_after_revoke

\* C40: destroy() completes without error on a registry that was never set up, on an
\* initialized registry and when called again after a destroy(), and the registry is then
\* DESTROYED with no running timer and no held lease.  (A destroy() that fails because the
\* store cannot be reached is left aside.)
C40_DestroyFromEveryState ==
    (fg.pc = "idle" /\ fg.last.op = "destroy" /\ fg.last.res.exc # "Exception") =>
        /\ fg.last.res.exc = ""
        /\ reg.lifecycle_state = "DESTROYED"
        /\ LiveTimers = {}
        /\ lease = NoLease
        /\ HeldLeases = {}

----------------------------------------------------------------------------
(* One PeriodicTimer made by a test: callers of start(), stop() and                     *)
(* set_max_failure_count(), and the thread of the timer.                                *)

\* the arguments of set_max_failure_count
MaxFailureCounts == {-1, 0, 2, 3}

\* PeriodicTimer(1, callback) of the tests
TestInterval == 1

\* a call on the timer that ended: what it raised, and whether, when it began, the timer
\* had been started and a stop() had returned
TimerEnded(op, res, started_before, stopped_before) ==
    [op |-> op, res |-> res, started_before |-> started_before, stopped_before |-> stopped_before]

TimerInit ==
    /\ model = <<>>
    /\ hist = <<>>
    /\ last = NoCall
    /\ prev = NoCall
    /\ calls = 0
    /\ etcd = {}
    /\ revision = 0
    /\ lease = NoLease
    /\ reg = Etcd3Registry(DEFAULT_LEASE_TTL)
    /\ leases = <<>>
    /\ timers = <<PeriodicTimer(TestInterval, TestCallback)>>
    /\ fg = Foreground(NoneEnded, FALSE, FALSE)
    /\ fgCalls = 0
    /\ loc = LocatorIdle
    /\ kt = KeysIdle

\* timer.start(), by any caller, also while another caller is blocked in stop()
TimerStart ==
    /\ fgCalls < MaxOps
    /\ fgCalls' = fgCalls + 1
    /\ LET started == PeriodicTimer_start(timers[1])
       IN  /\ timers' = [timers EXCEPT ![1] = started.timer]
           /\ fg' = [fg EXCEPT !.last =
                        TimerEnded("start", IF started.exc = "" THEN Returned("None") ELSE Raised(started.exc),
                                   timers[1].pc # "initial", timers[1].stop_returned)]
    /\ UNCHANGED <<etcd, revision, lease, reg, leases>>
    /\ UNCHANGED <<callVars, loc, kt>>

\* timer.stop(), lines 63-64
TimerStopBegin ==
    /\ fg.pc = "idle"
    /\ fgCalls < MaxOps
    /\ fgCalls' = fgCalls + 1
    /\ timers' = [timers EXCEPT ![1] = PeriodicTimer_stop(@)]
    /\ fg' = [fg EXCEPT !.pc = "t_join", !.op = "stop", !.was_started = timers[1].pc # "initial"]
    /\ UNCHANGED <<etcd, revision, lease, reg, leases>>
    /\ UNCHANGED <<callVars, loc, kt>>

\* timer.stop(), line 65 and the return
TimerStopEnd ==
    /\ fg.pc = "t_join"
    /\ Thread_join(timers[1])
    /\ timers' = [timers EXCEPT ![1] = PeriodicTimer_stop_returned(@, fg.was_started)]
    /\ fg' = [fg EXCEPT !.pc = "idle", !.op = "", !.was_started = FALSE,
                        !.last = TimerEnded("stop", Returned("None"), fg.was_started, timers[1].stop_returned)]
    /\ UNCHANGED <<etcd, revision, lease, reg, leases, fgCalls>>
    /\ UNCHANGED <<callVars, loc, kt>>

\* timer.set_max_failure_count(n)
TimerSetMaxFailureCount(n) ==
    /\ fgCalls < MaxOps
    /\ fgCalls' = fgCalls + 1
    /\ timers' = [timers EXCEPT ![1] = PeriodicTimer_set_max_failure_count(@, n)]
    /\ UNCHANGED <<etcd, revision, lease, reg, leases, fg>>
    /\ UNCHANGED <<callVars, loc, kt>>

\* _run, lines 108-125, with a callback that returns (ok) or raises
TestCallbackStep(i, ok) ==
    /\ timers[i].pc = "callback"
    /\ timers[i].callback = TestCallback
    /\ ThreadStep(i, IF ok THEN PeriodicTimer_run_callback_returned(timers[i])
                     ELSE PeriodicTimer_run_callback_raised(timers[i]))

TimerNext ==
    \/ TimerStart
    \/ TimerStopBegin
    \/ TimerStopEnd
    \/ \E n \in MaxFailureCounts : TimerSetMaxFailureCount(n)
    \/ \E i \in DOMAIN timers : ThreadRun(i)
    \/ \E i \in DOMAIN timers : ThreadWait(i)
    \/ \E i \in DOMAIN timers : ThreadExit(i)
    \/ \E i \in DOMAIN timers, ok \in BOOLEAN : TestCallbackStep(i, ok)

TimerSpec == TimerInit /\ [][TimerNext]_vars

----------------------------------------------------------------------------
(* The timer claims, stated against TimerSpec *)

\* C19: start() fails on a timer that was started before and on a timer on which a stop()
\* has returned, and the background loop of a timer is entered at most once.
C19_StartOnlyOnce ==
    /\ (fg.last.op = "start" /\ (fg.last.started_before \/ fg.last.stopped_before)) =>
          fg.last.res.exc # ""
    /\ timers[1].loops <= 1

\* C20: once a stop() called on a started timer has returned, is_running() is false and
\* the thread of the timer has left _run: no callback is in progress and none can start.
C20_StopWaitsForTheLoop ==
    timers[1].stopped_after_start =>
        /\ ~PeriodicTimer_is_running(timers[1])
        /\ timers[1].pc = "gone"

\* a stop() has returned on a timer whose loop had invoked the callback and had not
\* stopped itself
C20_Witness ==
    /\ timers[1].stopped_after_start
    /\ timers[1].invocations > 0
    /\ ~timers[1].self_stopped

\* C21: from the return of start() until the timer is told to stop (by stop() or by its
\* own failure threshold), is_running() is true.
C21_RunningOnceStarted ==
    (timers[1].start_returned /\ ~timers[1].stop_event) => PeriodicTimer_is_running(timers[1])

----------------------------------------------------------------------------
(* One PeriodicTimer configured before it is started, as in                             *)
(* test_should_fail_timer_thread_due_to_errors, with a thread that keeps running.       *)

\* timer.set_max_failure_count(n) before timer.start()
TimerConfigure(n) ==
    /\ timers[1].pc = "initial"
    /\ TimerSetMaxFailureCount(n)

ConfiguredTimerNext ==
    \/ \E n \in MaxFailureCounts : TimerConfigure(n)
    \/ TimerStart
    \/ TimerStopBegin
    \/ TimerStopEnd
    \/ \E i \in DOMAIN timers : ThreadRun(i)
    \/ \E i \in DOMAIN timers : ThreadWait(i)
    \/ \E i \in DOMAIN timers : ThreadExit(i)
    \/ \E i \in DOMAIN timers, ok \in BOOLEAN : TestCallbackStep(i, ok)

\* the thread of the timer is scheduled, the interval of a wait passes, a callback ends
ThreadFairness ==
    /\ WF_vars(ThreadRun(1))
    /\ WF_vars(ThreadWait(1))
    /\ WF_vars(ThreadExit(1))
    /\ WF_vars(\E ok \in BOOLEAN : TestCallbackStep(1, ok))

ConfiguredTimerSpec == TimerInit /\ [][ConfiguredTimerNext]_vars /\ ThreadFairness

\* the callback invocations that have ended
Completed(t) == IF t.pc = "callback" THEN t.invocations - 1 ELSE t.invocations

\* every callback invocation so far has failed
AlwaysFailed(t) == t.failures = Completed(t)

\* what a timer with threshold n > 0 whose callback has always failed looks like: at most n
\* invocations, told to stop at the n-th failure, and once its loop is over is_running() is
\* false and failure_count is n (unless stop() ended the loop first)
C22_SelfStopAfterN ==
    (timers[1].max_failure_count > 0 /\ AlwaysFailed(timers[1])) =>
        /\ timers[1].invocations <= timers[1].max_failure_count
        /\ timers[1].failures = timers[1].max_failure_count => timers[1].stop_event
        /\ timers[1].self_stopped => PeriodicTimer_failure_count(timers[1]) = timers[1].max_failure_count
        /\ (timers[1].self_stopped /\ timers[1].pc = "gone") => ~PeriodicTimer_is_running(timers[1])

C35_SelfStopOnlyAfterConsecutiveFailures ==
    [][/\ (~timers[1].self_stopped /\ timers'[1].self_stopped)
            => /\ timers'[1].max_failure_count > 0
               /\ timers'[1].streak >= timers'[1].max_failure_count
               /\ timers'[1].failures > timers[1].failures
       /\ (timers[1].pc = "callback" /\ timers'[1].pc = "wait" /\ timers'[1].failures = timers[1].failures)
            => /\ PeriodicTimer_failure_count(timers'[1]) = 0
               /\ timers'[1].self_stopped = timers[1].self_stopped
               /\ timers'[1].stop_event = timers[1].stop_event]_vars

\* threshold 2: a failure, a success, then two failures in a row, and the loop stopped
\* itself at the fourth invocation
C35_Witness ==
    /\ timers[1].max_failure_count = 2
    /\ timers[1].invocations = 4
    /\ timers[1].failures = 3
    /\ timers[1].streak = 2
    /\ timers[1].self_stopped

----------------------------------------------------------------------------
(* KeySpec: the functions of tools/key_tools.py and registry/key.py and    *)
(* Registry._as_key, applied to every string up to a length.  A behaviour  *)
(* draws the arguments and applies one function; normalize_key may then    *)
(* be applied again, to its own result.                                    *)

\* the length of the longest argument string
MaxLen == 3

\* the characters of the argument strings: the separator, a letter and a blank
KeyChars == {"/", "a", " "}

RawStrings == UNION {[1..n -> KeyChars] : n \in 0..MaxLen}

KeyInit ==
    /\ model = <<>>
    /\ etcd = {}
    /\ revision = 0
    /\ lease = NoLease
    /\ hist = <<>>
    /\ last = NoCall
    /\ prev = NoCall
    /\ calls = 0
    /\ LifeIdle
    /\ loc = LocatorIdle
    /\ kt \in {KeyApplication(asserts, a, Str(b)) :
                 asserts \in BOOLEAN, a \in {Str(s) : s \in RawStrings} \cup {NoneObject},
                 b \in RawStrings}

Applied(op, arg, out) ==
    /\ kt' = [kt EXCEPT !.op = op, !.n = kt.n + 1, !.arg = arg, !.out = out]
    /\ UNCHANGED <<callVars, lifeVars, etcd, revision, lease, loc>>

\* normalize_key(a), and then normalize_key of what that returned
ApplyNormalize ==
    \/ /\ kt.n = 0
       /\ Applied("normalize_key", kt.a.raw, normalize_key_call(kt.asserts, kt.a))
    \/ /\ kt.n = 1 /\ kt.op = "normalize_key" /\ kt.out.exc = ""
       /\ Applied("normalize_key", kt.out.ret, normalize_key_call(kt.asserts, Str(kt.out.ret)))

\* Key.create(a)
ApplyCreate ==
    /\ kt.n = 0
    /\ Applied("create", kt.a.raw, Key_create_call(kt.asserts, kt.a))

\* Registry._as_key(a)
ApplyAsKey ==
    /\ kt.n = 0
    /\ Applied("_as_key", kt.a.raw, Registry_as_key_call(kt.asserts, kt.a))

\* Key.create(a).relative(b), and Key.create(a).relative(Key.create(b))
ApplyRelative(is_key) ==
    /\ kt.n = 0 /\ kt.a.type = "str"
    /\ Applied(IF is_key THEN "relative_key" ELSE "relative", kt.a.raw,
               Key_relative_call(Key_create(Temp, kt.a.raw),
                                 IF is_key THEN Key_create(Temp, kt.b.raw) ELSE kt.b, is_key))

\* Key.create(a).remove_parent(Key.create(b))
ApplyRemoveParent ==
    /\ kt.n = 0 /\ kt.a.type = "str"
    /\ Applied("remove_parent", kt.a.raw,
               Key_remove_parent_call(Key_create(Temp, kt.a.raw), Key_create(Temp, kt.b.raw)))

\* Key.create(a).is_a_parent(Key.create(b))
ApplyIsAParent ==
    /\ kt.n = 0 /\ kt.a.type = "str"
    /\ Applied("is_a_parent", kt.a.raw,
               Key_is_a_parent_call(Key_create(Temp, kt.a.raw), Key_create(Temp, kt.b.raw)))

\* Key.create(k.relative(b).key).remove_parent(k) for k = Key.create(a), and
\* k.relative(r).remove_parent(k) for the Key r = Key.create(b)
ApplyRoundTrip(is_key) ==
    /\ kt.n = 0 /\ kt.a.type = "str"
    /\ LET k        == Key_create(Temp, kt.a.raw)
           relative == Key_relative_call(k, IF is_key THEN Key_create(Temp, kt.b.raw) ELSE kt.b, is_key)
           made     == IF is_key THEN relative.key ELSE Key_create(Temp, relative.key.key)
       IN  Applied(IF is_key THEN "round_trip_key" ELSE "round_trip", kt.a.raw,
                   IF relative.exc # "" THEN relative ELSE Key_remove_parent_call(made, k))

KeyNext ==
    \/ ApplyNormalize
    \/ ApplyCreate
    \/ ApplyAsKey
    \/ \E is_key \in BOOLEAN : ApplyRelative(is_key)
    \/ ApplyRemoveParent
    \/ ApplyIsAParent
    \/ \E is_key \in BOOLEAN : ApplyRoundTrip(is_key)

KeySpec == KeyInit /\ [][KeyNext]_vars

----------------------------------------------------------------------------
(* Claims about the key functions *)

\* C27: normalize_key is idempotent: applied to its own result it returns that result,
\* for every string it accepts, also with a blank next to a separator and for strings
\* made only of separators.
C27_NormalizationIsIdempotent ==
    (kt.op = "normalize_key" /\ kt.n = 2) => (kt.out.exc = "" /\ kt.out.ret = kt.arg)

\* key is the canonical string of at least one segment, all segments non-empty: it
\* begins with one separator, does not end with one and has no two in a row
WellFormedKey(key) ==
    /\ Len(key.key_parts) >= 1
    /\ \A i \in DOMAIN key.key_parts : key.key_parts[i] # <<>>
    /\ Len(key.key) >= 2
    /\ key.key[1] = "/" /\ key.key[2] # "/"
    /\ key.key[Len(key.key)] # "/"
    /\ ~HasDoubleSlash(key.key)

\* C28: every Key that Key.create, Key.relative or Key.remove_parent returns has at least
\* one segment and only non-empty segments, and its string begins with exactly one
\* separator, does not end with one and has no two adjacent separators.
C28_KeysAreWellFormed ==
    (kt.op \in {"create", "relative", "relative_key", "remove_parent"} /\ kt.out.exc = "")
        => WellFormedKey(kt.out.key)

\* C29: Key.create(raw), called directly or by Registry._as_key for a string, fails with
\* InvalidKey when raw is no string or is empty once its whitespace is trimmed.
C29_InvalidKeyIsRejected ==
    (kt.op \in {"create", "_as_key"} /\ (kt.a.type # "str" \/ strip(kt.a.raw) = <<>>))
        => kt.out.exc = "InvalidKey"

\* p is a prefix of q, in order, and shorter
StrictPrefix(p, q) == Len(p) < Len(q) /\ SubSeq(q, 1, Len(p)) = p

\* C30: a.is_a_parent(b) is true exactly when the segments of b are a prefix of the
\* segments of a, in order, and fewer; so no key is a parent of itself, and when b is a
\* parent of a then a is no parent of b.
C30_ParentIsStrictPrefix ==
    kt.op = "is_a_parent" =>
        LET a == Key_create(Temp, kt.a.raw)
            b == Key_create(Temp, kt.b.raw)
        IN  /\ kt.out.flag = StrictPrefix(b.key_parts, a.key_parts)
            /\ (a.key_parts = b.key_parts => ~kt.out.flag)
            /\ (kt.out.flag => ~Key_is_a_parent(b, a))

\* x is one segment: a non-empty string without a separator
SingleSegment(x) == x # <<>> /\ \A i \in DOMAIN x : x[i] # "/"

\* C31: for every key k and every single segment x, removing k from the key made of
\* k.relative(x) gives Key.create(x); and for a Key r, k.relative(r).remove_parent(k) is r.
C31_RelativeThenRemoveParent ==
    /\ (kt.op = "round_trip" /\ SingleSegment(kt.b.raw))
          => (kt.out.exc = "" /\ Key_eq(kt.out.key, Key_create(Temp, kt.b.raw)))
    /\ kt.op = "round_trip_key"
          => (kt.out.exc = "" /\ Key_eq(kt.out.key, Key_create(Temp, kt.b.raw)))

\* C32: k.remove_parent(p) raises the key-relation error and returns no Key when the
\* segments of p are no strict prefix of the segments of k (p equal to k, p longer, p
\* different in a shared position); when p is a parent it returns the key whose
\* segments are those of k after the segments of p.
C32_RemoveParentReturnsTheSuffix ==
    kt.op = "remove_parent" =>
        LET k == Key_create(Temp, kt.a.raw)
            p == Key_create(Temp, kt.b.raw)
        IN  IF StrictPrefix(p.key_parts, k.key_parts)
            THEN /\ kt.out.exc = ""
                 /\ kt.out.key.key_parts = SubSeq(k.key_parts, Len(p.key_parts) + 1, Len(k.key_parts))
            ELSE kt.out.exc = "KeyException"

\* is_a_parent answered true for a key of two segments and a parent of one
C30_Witness ==
    /\ kt.op = "is_a_parent" /\ kt.out.flag
    /\ Len(Key_create(Temp, kt.b.raw).key_parts) = 1
    /\ Len(Key_create(Temp, kt.a.raw).key_parts) = 2


----------------------------------------------------------------------------
(* LocatorSpec: one process, with assert statements compiled in or not,    *)
(* calls the functions of Keys and makes a RoundRobingServiceLocator on an *)
(* Etcd3Registry; members are registered and removed under the members key *)
(* of its service, and two threads call find_service.  The loop of         *)
(* find_service reads self._justice_table once per member, and the table   *)
(* is replaced after the loop; the threads interleave between these steps. *)

\* number of find_service calls in one behaviour
MaxFinds == 3

\* number of registrations and removals under the members key
MaxChanges == 2

ClusterIds == {<<"c">>}

ServiceNames == {<<"s">>}

\* the instance ids of the service
Instances == {<<"a">>, <<"b">>}

\* a key below the key of the first instance, such as a property of the instance
PropertyPath == <<"a", "/", "x">>

KeysFunctions ==
    {"create_cluster_key", "create_service_base_key", "create_service_key",
     "create_service_members_base_key", "create_service_instance_key"}

Keys_call(asserts, fn, cluster_id, service_name, instance_id) ==
    CASE fn = "create_cluster_key" -> Keys_create_cluster_key(asserts, cluster_id)
      [] fn = "create_service_base_key" -> Keys_create_service_base_key(asserts, cluster_id)
      [] fn = "create_service_key" -> Keys_create_service_key(asserts, cluster_id, service_name)
      [] fn = "create_service_members_base_key" ->
             Keys_create_service_members_base_key(asserts, cluster_id, service_name)
      [] fn = "create_service_instance_key" ->
             Keys_create_service_instance_key(asserts, cluster_id, service_name, instance_id)

\* the key of path below the members key, as registry.put(key, ...) hands it to the store
MemberStoreKey(members_key, path) ==
    Etcd3Registry_to_ectd_key(construct_key(<<members_key, path>>), FALSE)

\* the string registry.list_keys returns for an instance
MemberKey(members_key, instance_id) == construct_key(<<members_key, instance_id>>)

\* the instances that have an entry directly below the members key
LiveMembers(store, members_key) ==
    {i \in Instances : \E e \in store : e.key = MemberStoreKey(members_key, i)}

LocatorInit ==
    /\ model = <<>>
    /\ etcd = {}
    /\ revision = 0
    /\ lease = NoLease
    /\ hist = <<>>
    /\ last = NoCall
    /\ prev = NoCall
    /\ calls = 0
    /\ LifeIdle
    /\ loc \in {Locator(asserts) : asserts \in BOOLEAN}
    /\ kt = KeysIdle

\* a call of a function of Keys, before the locator is made
KeysCall(fn, cluster_id, service_name, instance_id) ==
    /\ loc.state = "none"
    /\ loc' = [loc EXCEPT !.keys = KeysCalled(fn, cluster_id, service_name, instance_id,
                                   Keys_call(loc.asserts, fn, cluster_id, service_name, instance_id))]
    /\ UNCHANGED <<callVars, lifeVars, etcd, revision, lease, kt>>

\* RoundRobingServiceLocator(registry, cluster_id, service_name); line 58 is then the
\* latest call of a function of Keys
LocatorNew(cluster_id, service_name) ==
    /\ loc.state = "none"
    /\ LET new == ServiceLocator_init(loc.asserts, cluster_id, service_name)
           called == KeysCalled("create_service_members_base_key", cluster_id, service_name, <<>>,
                                Keys_create_service_members_base_key(loc.asserts, cluster_id, service_name))
       IN  loc' = IF new.exc # ""
                  THEN [loc EXCEPT !.state = "failed", !.exc = new.exc, !.keys = called]
                  ELSE [loc EXCEPT !.state = "constructed", !.service_name = new.service_name,
                                   !.service_members_key = new.service_members_key,
                                   !.justice_table = new.justice_table, !.keys = called]
    /\ UNCHANGED <<callVars, lifeVars, etcd, revision, lease, kt>>

\* some process registers a key below the members key of the service
MemberJoins(path) ==
    /\ loc.state = "constructed"
    /\ revision < loc.base + MaxChanges
    /\ LET key  == MemberStoreKey(loc.service_members_key, path)
           done == client_put(etcd, revision, key, "", NoLease)
       IN  /\ \A e \in etcd : e.key # key
           /\ etcd' = done.store
           /\ revision' = done.revision
    /\ loc' = [loc EXCEPT !.stable = loc.stable /\ (loc.finds = 0 \/ path \notin Instances)]
    /\ UNCHANGED <<callVars, lifeVars, lease, kt>>

\* the key is deleted, or its lease ends
MemberLeaves(path) ==
    /\ loc.state = "constructed"
    /\ revision < loc.base + MaxChanges
    /\ LET key == MemberStoreKey(loc.service_members_key, path)
       IN  /\ \E e \in etcd : e.key = key
           /\ etcd' = {e \in etcd : e.key # key}
           /\ revision' = revision + 1
    /\ loc' = [loc EXCEPT !.stable = loc.stable /\ (loc.finds = 0 \/ path \notin Instances)]
    /\ UNCHANGED <<callVars, lifeVars, lease, kt>>

\* find_service, lines 88-95: thread c enters and fetches the members.  A call keeps
\* nothing of its thread, so caller 2 stands for any thread that calls while the call
\* of caller 1 is under way.
FindBegin(c) ==
    /\ loc.state = "constructed"
    /\ loc.callers[c].pc = "idle"
    /\ c = 1 \/ loc.callers[1].pc # "idle"
    /\ loc.finds < MaxFinds
    /\ \E existing_members \in Etcd3Registry_list_keys(etcd, loc.service_members_key) :
         LET busy == \E d \in LocatorCallers \ {c} : loc.callers[d].pc # "idle"
         IN  loc' = [loc EXCEPT
                 !.finds = loc.finds + 1,
                 !.serial = loc.serial /\ ~busy,
                 !.callers = [d \in LocatorCallers |->
                     IF d = c
                     THEN [pc |-> "loop", locals |-> find_service_locals(existing_members),
                           fetched |-> existing_members, before |-> loc.justice_table,
                           no_children |-> LiveMembers(etcd, loc.service_members_key) = {},
                           overlapped |-> busy]
                     ELSE IF loc.callers[d].pc # "idle"
                     THEN [loc.callers[d] EXCEPT !.overlapped = TRUE]
                     ELSE loc.callers[d]]]
    /\ UNCHANGED <<callVars, lifeVars, etcd, revision, lease, kt>>

\* find_service, lines 96-100: one iteration of the loop
FindLoop(c) ==
    /\ loc.callers[c].pc = "loop"
    /\ loc.callers[c].locals.existing_members # <<>>
    /\ loc' = [loc EXCEPT !.callers[c].locals =
                              find_service_iteration(loc.callers[c].locals, loc.justice_table)]
    /\ UNCHANGED <<callVars, lifeVars, etcd, revision, lease, kt>>

\* find_service, lines 102-109: the call raises, or stores the new table and returns
FindEnd(c) ==
    /\ loc.callers[c].pc = "loop"
    /\ loc.callers[c].locals.existing_members = <<>>
    /\ LET caller == loc.callers[c]
           end    == find_service_end(caller.locals, loc.justice_table)
       IN  loc' = [loc EXCEPT
               !.justice_table = end.justice_table,
               !.callers[c] = LocatorCaller,
               !.done = IF end.exc = "" THEN loc.done + 1 ELSE loc.done,
               !.returned = IF end.exc = ""
                            THEN DictPut(loc.returned, end.ret[1],
                                         IF end.ret[1] \in DOMAIN loc.returned
                                         THEN loc.returned[end.ret[1]] + 1 ELSE 1)
                            ELSE loc.returned,
               !.last = FindEnded(TRUE, end.exc, end.ret, caller.no_children, caller.overlapped,
                                  caller.before, loc.justice_table, end.justice_table)]
    /\ UNCHANGED <<callVars, lifeVars, etcd, revision, lease, kt>>

LocatorNext ==
    \/ \E fn \in KeysFunctions, cluster_id \in ClusterIds, service_name \in ServiceNames,
          instance_id \in Instances : KeysCall(fn, cluster_id, service_name, instance_id)
    \/ \E cluster_id \in ClusterIds, service_name \in ServiceNames : LocatorNew(cluster_id, service_name)
    \/ \E path \in Instances \cup {PropertyPath} : MemberJoins(path)
    \/ \E path \in Instances \cup {PropertyPath} : MemberLeaves(path)
    \/ \E c \in LocatorCallers : FindBegin(c)
    \/ \E c \in LocatorCallers : FindLoop(c)
    \/ \E c \in LocatorCallers : FindEnd(c)

LocatorSpec == LocatorInit /\ [][LocatorNext]_vars

\* the store after the instances of a sequence registered themselves, one put each
RECURSIVE Registered(_, _, _, _)
Registered(store, rev, members_key, instances) ==
    IF instances = <<>> THEN [store |-> store, revision |-> rev]
    ELSE LET done == client_put(store, rev, MemberStoreKey(members_key, Head(instances)), "", NoLease)
         IN  Registered(done.store, done.revision, members_key, Tail(instances))

\* the members key of the service the locators are made for
MembersKey == Keys_create_service_members_base_key(FALSE, <<"c">>, <<"s">>).ret

\* MembersSpec: the same process, started when both instances of the service are
\* registered; they may leave and come back while the locator is in use.
MembersInit ==
    /\ model = <<>>
    /\ LET done == Registered({}, 0, MembersKey, <<<<"a">>, <<"b">>>>)
       IN  /\ etcd = done.store
           /\ revision = done.revision
           /\ loc \in {[Locator(asserts) EXCEPT !.base = done.revision] : asserts \in BOOLEAN}
    /\ lease = NoLease
    /\ hist = <<>>
    /\ last = NoCall
    /\ prev = NoCall
    /\ calls = 0
    /\ LifeIdle
    /\ kt = KeysIdle

MembersNext ==
    \/ \E cluster_id \in ClusterIds, service_name \in ServiceNames : LocatorNew(cluster_id, service_name)
    \/ \E path \in Instances : MemberJoins(path)
    \/ \E path \in Instances : MemberLeaves(path)
    \/ \E c \in LocatorCallers : FindBegin(c)
    \/ \E c \in LocatorCallers : FindLoop(c)
    \/ \E c \in LocatorCallers : FindEnd(c)

MembersSpec == MembersInit /\ [][MembersNext]_vars


----------------------------------------------------------------------------
(* Claims about the locator and the Keys helper *)

\* the count a table holds for a key, 0 when it holds none
CountOf(table, k) == IF k \in DOMAIN table THEN table[k] ELSE 0

\* the instances registered below the members key of the locator, and their keys
Live == LiveMembers(etcd, loc.service_members_key)

LiveKeys == {MemberKey(loc.service_members_key, i) : i \in Live}

\* no find_service call is under way
AllReturned == \A c \in LocatorCallers : loc.callers[c].pc = "idle"

RECURSIVE SumOf(_, _)
SumOf(table, S) ==
    IF S = {} THEN 0
    ELSE LET k == CHOOSE x \in S : TRUE IN CountOf(table, k) + SumOf(table, S \ {k})

\* C23: after N successful find_service calls on one locator, with a set of M live members
\* that did not change, N a multiple of M, the table holds N/M for every member and
\* every member was returned N/M times.
C23_FairAfterMultipleOfM ==
    (/\ loc.state = "constructed" /\ loc.stable /\ AllReturned
     /\ Live # {} /\ loc.done % Cardinality(Live) = 0)
        => \A k \in LiveKeys :
              /\ CountOf(loc.justice_table, k) = loc.done \div Cardinality(Live)
              /\ CountOf(loc.returned, k) = loc.done \div Cardinality(Live)

\* C24: find_service on a locator whose members key has no immediate child raises
\* ServiceUnavailableException and returns no instance, and it leaves the stored table as
\* it was: its last step stores nothing, and when no other call overlapped it the table
\* is the one the call found.
C24_NoMemberNoInstance ==
    (loc.last.ended /\ loc.last.no_children)
        => /\ loc.last.exc = "ServiceUnavailableException"
           /\ loc.last.ret = <<>>
           /\ ~loc.last.wrote
           /\ (~loc.last.overlapped => ~loc.last.changed)

\* a call raised for want of members on a locator whose table held counts
C24_Witness ==
    /\ loc.last.ended /\ loc.last.no_children /\ ~loc.last.overlapped
    /\ loc.last.exc = "ServiceUnavailableException"
    /\ loc.last.had_table
    /\ \E k \in DOMAIN loc.justice_table : loc.justice_table[k] > 0

\* C25: when k find_service calls have completed on one locator with a member set that
\* did not change, under any interleaving of the callers, the counts of the table add
\* up to k and the counts of any two members differ by at most one.
C25_NoLostIncrement ==
    (loc.state = "constructed" /\ loc.stable /\ AllReturned /\ Live # {})
        => /\ SumOf(loc.justice_table, LiveKeys) = loc.done
           /\ \A k1, k2 \in LiveKeys :
                 CountOf(loc.justice_table, k1) - CountOf(loc.justice_table, k2) <= 1

\* the members of a list
Members(list) == {list[i] : i \in DOMAIN list}

\* the step in which the find_service call of caller c ends and returns an instance
FindReturns(c) ==
    /\ loc.callers[c].pc = "loop"
    /\ loc'.callers[c].pc = "idle"
    /\ loc'.last.exc = ""

\* C36: after a find_service call that returned, the stored table has exactly the keys
\* the call fetched.  Every count is carried forward: an iteration copies the count the
\* stored table holds for its member, 0 when it holds none, and the end adds one for the
\* returned member only.  So after a call that no other call overlapped each fetched
\* member has the count the table held when the call began (0 for a member the table
\* did not hold: a new one, or one that a call in between did not fetch and dropped),
\* plus one for the returned member.
C36_TableRebuiltFromFetchedList ==
    [][\A c \in LocatorCallers :
         /\ (/\ loc.callers[c].pc = "loop" /\ loc'.callers[c].pc = "loop"
             /\ loc'.callers[c].locals # loc.callers[c].locals) =>
               LET member == Head(loc.callers[c].locals.existing_members)
                   new    == loc'.callers[c].locals.new_justice_table
                   old    == loc.callers[c].locals.new_justice_table
               IN  /\ DOMAIN new = DOMAIN old \cup {member}
                   /\ new[member] = CountOf(loc.justice_table, member)
                   /\ \A k \in DOMAIN old \ {member} : new[k] = old[k]
         /\ FindReturns(c) =>
               LET caller == loc.callers[c]
                   ret    == loc'.last.ret[1]
                   plus(k) == IF k = ret THEN 1 ELSE 0
               IN  /\ DOMAIN loc'.justice_table = Members(caller.fetched)
                   /\ \A k \in Members(caller.fetched) :
                         /\ loc'.justice_table[k] = caller.locals.new_justice_table[k] + plus(k)
                         /\ ~caller.overlapped =>
                               loc'.justice_table[k] = CountOf(caller.before, k) + plus(k)]_vars

\* an instance that was returned twice holds the count 1: it left, a call that returned
\* dropped it, it came back and was returned again
C36_Witness ==
    /\ loc.serial /\ AllReturned /\ loc.last.ended /\ loc.last.exc = ""
    /\ DOMAIN loc.justice_table = LiveKeys
    /\ Cardinality(LiveKeys) = 2
    /\ \E k \in LiveKeys : CountOf(loc.returned, k) = 2 /\ loc.justice_table[k] = 1

\* C37: a find_service call that returns, returns a member of the list it fetched whose
\* carried count (the count the table held when the call began, if no call overlapped it)
\* is the least of the fetched members, and the first such member of the list; the
\* stored table then holds one more for it and the carried count for every other
\* fetched member.
C37_ReturnsFirstLeastUsed ==
    [][\A c \in LocatorCallers :
         FindReturns(c) =>
            LET caller  == loc.callers[c]
                fetched == caller.fetched
                carried == caller.locals.new_justice_table
                ret     == loc'.last.ret[1]
            IN  /\ DOMAIN carried = Members(fetched)
                /\ ~caller.overlapped =>
                      \A k \in Members(fetched) : carried[k] = CountOf(caller.before, k)
                /\ \E i \in DOMAIN fetched :
                      /\ fetched[i] = ret
                      /\ \A j \in DOMAIN fetched : carried[ret] <= carried[fetched[j]]
                      /\ \A j \in 1..(i - 1) : carried[ret] < carried[fetched[j]]
                /\ loc'.justice_table[ret] = carried[ret] + 1
                /\ \A k \in Members(fetched) \ {ret} : loc'.justice_table[k] = carried[k]]_vars

\* of two instances that were never returned the first call returned the second one,
\* which came first in the list
C37_Witness ==
    /\ loc.serial /\ AllReturned /\ loc.done = 1 /\ loc.last.ended
    /\ loc.last.ret = <<MemberKey(loc.service_members_key, <<"b">>)>>
    /\ loc.justice_table = DictPut(DictPut(EmptyDict, MemberKey(loc.service_members_key, <<"a">>), 0),
                                   MemberKey(loc.service_members_key, <<"b">>), 1)

\* C39: while the members do not change and no two find_service calls overlap, after
\* every call that returned the counts of any two members of the table differ by at
\* most one, whatever the number of calls.
C39_SequentialCallsStayBalanced ==
    (loc.state = "constructed" /\ loc.stable /\ loc.serial /\ loc.done > 0)
        => \A k1, k2 \in DOMAIN loc.justice_table \cup LiveKeys :
              CountOf(loc.justice_table, k1) - CountOf(loc.justice_table, k2) <= 1

\* three calls on two members: the counts are 2 and 1
C39_Witness ==
    /\ loc.stable /\ loc.serial /\ AllReturned /\ loc.done = 3
    /\ Cardinality(LiveKeys) = 2
    /\ \E k1, k2 \in LiveKeys : loc.justice_table[k1] = 2 /\ loc.justice_table[k2] = 1

\* what the spec says a function of Keys returns
ExpectedKey(fn, cluster_id, service_name, instance_id) ==
    LET services == <<"/">> \o cluster_id \o <<"/", "s", "e", "r", "v", "i", "c", "e", "s">>
        service  == services \o <<"/">> \o service_name
        members  == service \o <<"/", "m", "e", "m", "b", "e", "r", "s">>
    IN  CASE fn = "create_cluster_key" -> <<"/">> \o cluster_id
          [] fn = "create_service_base_key" -> services
          [] fn = "create_service_key" -> service
          [] fn = "create_service_members_base_key" -> members
          [] fn = "create_service_instance_key" -> members \o <<"/">> \o instance_id

\* C26: for non-empty cluster id, service name and instance id every function of Keys
\* returns its key (<cluster>/services/<service>, then the segment members, then the
\* instance id) and does not fail; so the constructor of a locator returns.
C26_KeysReturnTheHierarchy ==
    /\ loc.keys.fn # "" =>
          /\ loc.keys.out.exc = ""
          /\ loc.keys.out.ret = ExpectedKey(loc.keys.fn, loc.keys.cluster_id,
                                            loc.keys.service_name, loc.keys.instance_id)
    /\ loc.state # "failed"


----------------------------------------------------------------------------
(* PutSpec: Etcd3Registry._put called with lists of pairs and with or      *)
(* without a condition key, as put, put_all and put_if_not_exist are meant *)
(* to call it.                                                             *)

PutKeys == {Key_create(Temp, s_pa), Key_create(Temp, s_pb)}

PutValues == {"1", "2"}

\* the kv_list arguments: one pair, or two pairs of different keys
KvLists ==
    {<<<<k, v>>>> : k \in PutKeys, v \in PutValues}
        \cup {l \in {<<<<k1, v1>>, <<k2, v2>>>> : k1 \in PutKeys, k2 \in PutKeys,
                                                   v1 \in PutValues, v2 \in PutValues} :
                   l[1][1] # l[2][1]}

\* conditional_key_exist: None, or a Key
ConditionKeys == {<<>>} \cup {<<k>> : k \in PutKeys}

PutInit == Init

\* self._put(kv_list, conditional_key_exist); last keeps the arguments, the store before
\* the call (pre) and what the call returned
DirectPut(kv_list, conditional_key_exist) ==
    /\ calls < MaxCalls
    /\ calls' = calls + 1
    /\ LET done == Etcd3Registry_put(etcd, revision, lease, kv_list, conditional_key_exist)
       IN  /\ etcd' = done.store
           /\ revision' = done.revision
           /\ last' = [op |-> "_put", kv_list |-> kv_list,
                       conditional_key_exist |-> conditional_key_exist,
                       pre |-> etcd, etcd |-> done.res]
    /\ UNCHANGED <<model, hist, prev, lease, lifeVars, loc, kt>>

PutNext == \E kv_list \in KvLists, conditional_key_exist \in ConditionKeys :
               DirectPut(kv_list, conditional_key_exist)

PutSpec == PutInit /\ [][PutNext]_vars

\* the store holds every pair of kv_list
PutsApplied(store, kv_list) ==
    \A i \in DOMAIN kv_list :
        \E e \in store : /\ e.key = Etcd3Registry_to_ectd_key(kv_list[i][1], TRUE)
                         /\ e.value = kv_list[i][2]

\* C33: a _put of several pairs or with a condition key is one transaction that applies
\* all the puts only if the condition holds, the condition being that the condition key
\* exists (its version is greater than 0); with no condition key all puts are applied;
\* and _put returns true iff the puts were applied.
C33_TransactionalPut ==
    (last.op = "_put" /\ (Len(last.kv_list) > 1 \/ last.conditional_key_exist # <<>>)) =>
        LET holds == \/ last.conditional_key_exist = <<>>
                     \/ Version(last.pre,
                                Etcd3Registry_to_ectd_key(last.conditional_key_exist[1], TRUE)) > 0
        IN  /\ holds => PutsApplied(etcd, last.kv_list)
            /\ ~holds => etcd = last.pre
            /\ (last.etcd = Returned("True")) <=> holds

====
